---- MODULE Spec2Model ----
(***************************************************************************)
(* The affinity subsystem of the OpenMP runtime (kmp_affinity.cpp):        *)
(* machine-topology discovery, canonicalization, hardware-subset           *)
(* filtering, place-list construction.                                     *)
(*                                                                         *)
(* C arrays are modelled as functions over 0 .. n-1 so that every index    *)
(* of the model is the index of the code.  A "level -1" of the code is     *)
(* the integer -1 here as well.                                            *)
(***************************************************************************)
EXTENDS Integers, Sequences, FiniteSets, TLC

VARIABLES machine, pc, __kmp_topology, __kmp_affin_fullMask,
          __kmp_affin_origMask, __kmp_avail_proc, globals, __kmp_hw_subset,
          filtered, __kmp_affinity, __kmp_affinity_num_places, bind_type,
          procarr, places_written, warnings,
          __kmp_threads, os_affinity, call, ncalls,
          __kmp_hidden_helper_threads_num, __kmp_env_consistency_check,
          __kmp_hh_affinity, tried

(* the state of the threads and of their binding *)
bindVars == <<__kmp_threads, os_affinity, call, ncalls,
              __kmp_hidden_helper_threads_num, __kmp_env_consistency_check,
              __kmp_hh_affinity>>

vars == <<machine, pc, __kmp_topology, __kmp_affin_fullMask,
          __kmp_affin_origMask, __kmp_avail_proc, globals, __kmp_hw_subset,
          filtered, __kmp_affinity, __kmp_affinity_num_places, bind_type,
          procarr, places_written, warnings,
          __kmp_threads, os_affinity, call, ncalls,
          __kmp_hidden_helper_threads_num, __kmp_env_consistency_check,
          __kmp_hh_affinity, tried>>

(***************************************************************************)
(* Kinds, ids                                                              *)
(***************************************************************************)
KMP_HW_UNKNOWN == "UNKNOWN"

HwTypes ==
  {"SOCKET", "PROC_GROUP", "NUMA", "DIE", "LLC", "L3", "TILE", "MODULE",
   "L2", "L1", "CORE", "THREAD"}

UNKNOWN_ID == -1

MULTIPLE_ID == -2

UNKNOWN_CORE_EFF == -1

KMP_HW_CORE_TYPE_UNKNOWN == "UNKNOWN"

NoAttrs == [core_type |-> KMP_HW_CORE_TYPE_UNKNOWN, core_eff |-> UNKNOWN_CORE_EFF, valid |-> FALSE]

Attrs(t, e) == [core_type |-> t, core_eff |-> e, valid |-> TRUE]

is_core_type_valid(a) == a.core_type # KMP_HW_CORE_TYPE_UNKNOWN

is_core_eff_valid(a) == a.core_eff # UNKNOWN_CORE_EFF

(***************************************************************************)
(* Array helpers                                                           *)
(***************************************************************************)
Arr(s) == [i \in 0 .. Len(s) - 1 |-> s[i + 1]]

ToSeq(a, n) == [i \in 1 .. n |-> a[i - 1]]

Fill(n, v) == [i \in 0 .. n - 1 |-> v]

RemoveAt(a, n, k) == [i \in 0 .. n - 2 |-> IF i < k THEN a[i] ELSE a[i + 1]]

InsertAt(a, n, k, v) ==
  [i \in 0 .. n |-> IF i < k THEN a[i] ELSE IF i = k THEN v ELSE a[i - 1]]

(* evaluate x, then e: keeps the accumulators of the loops below evaluated  *)
(* iteration by iteration                                                  *)
Then(x, e) == IF x = x THEN e ELSE e

(* bind a value to a name: With(v, LAMBDA x : e) is e with x standing for v *)
With(v, Body(_)) == Body(v)

Max2(a, b) == IF a > b THEN a ELSE b

Min2(a, b) == IF a < b THEN a ELSE b

RECURSIVE Product(_, _, _)
Product(a, lo, hi) == IF lo > hi THEN 1 ELSE a[lo] * Product(a, lo + 1, hi)

(***************************************************************************)
(* kmp_hw_thread_t                                                         *)
(***************************************************************************)
HwThread(os, idx, ids, attrs) ==
  [os_id |-> os, original_idx |-> idx, ids |-> ids,
   sub_ids |-> [i \in DOMAIN ids |-> 0], attrs |-> attrs, leader |-> FALSE]

__kmp_is_hybrid_cpu == machine.hybrid

RECURSIVE compare_ids_from(_, _, _, _)
compare_ids_from(T, a, b, level) ==
  IF level >= T.depth
    THEN IF a.os_id < b.os_id THEN -1 ELSE IF a.os_id > b.os_id THEN 1 ELSE 0
    ELSE LET effs == /\ __kmp_is_hybrid_cpu
                     /\ T.types[level] = "CORE"
                     /\ is_core_eff_valid(a.attrs)
                     /\ is_core_eff_valid(b.attrs)
         IN IF effs /\ a.attrs.core_eff < b.attrs.core_eff THEN 1
            ELSE IF effs /\ a.attrs.core_eff > b.attrs.core_eff THEN -1
            ELSE IF a.ids[level] = b.ids[level]
              THEN compare_ids_from(T, a, b, level + 1)
            ELSE IF a.ids[level] = UNKNOWN_ID THEN 1
            ELSE IF b.ids[level] = UNKNOWN_ID THEN -1
            ELSE IF a.ids[level] < b.ids[level] THEN -1
            ELSE 1

compare_ids(T, a, b) == compare_ids_from(T, a, b, 0)

RECURSIVE compare_compact_from(_, _, _, _)
compare_compact_from(T, aa, bb, i) ==
  IF i >= T.depth THEN 0
  ELSE LET j == IF i < T.compact THEN T.depth - i - 1 ELSE i - T.compact
       IN IF aa.sub_ids[j] < bb.sub_ids[j] THEN -1
          ELSE IF aa.sub_ids[j] > bb.sub_ids[j] THEN 1
          ELSE compare_compact_from(T, aa, bb, i + 1)

compare_compact(T, aa, bb) == compare_compact_from(T, aa, bb, 0)

(* qsort over hw_threads with the given three-way comparator *)
QSort(T, cmp(_, _, _)) ==
  [T EXCEPT !.hw_threads =
     Arr(SortSeq(ToSeq(T.hw_threads, T.num_hw_threads),
                 LAMBDA x, y : cmp(T, x, y) < 0))]

sort_ids(T) == QSort(T, compare_ids)

sort_compact(T, compact) == QSort([T EXCEPT !.compact = compact], compare_compact)

(***************************************************************************)
(* kmp_topology_t: accessors                                               *)
(***************************************************************************)
get_equivalent_type(T, type) ==
  IF type = KMP_HW_UNKNOWN THEN KMP_HW_UNKNOWN ELSE T.equivalent[type]

set_equivalent_type(T, type1, type2) ==
  LET real_type2 == IF T.equivalent[type2] = KMP_HW_UNKNOWN THEN type2
                    ELSE T.equivalent[type2]
  IN [T EXCEPT !.equivalent =
        [t \in HwTypes |->
           IF t = type1 \/ T.equivalent[t] = type1 THEN real_type2
           ELSE T.equivalent[t]]]

get_level(T, type) ==
  LET eq_type == get_equivalent_type(T, type)
  IN IF eq_type = KMP_HW_UNKNOWN THEN -1
     ELSE IF \E i \in 0 .. T.depth - 1 : T.types[i] = eq_type
       THEN CHOOSE i \in 0 .. T.depth - 1 : T.types[i] = eq_type
       ELSE -1

calculate_ratio(T, level1, level2) == Product(T.ratio, level2 + 1, level1)

allocate(nproc, ndepth, types) ==
  [depth |-> ndepth, types |-> types, num_hw_threads |-> nproc,
   hw_threads |-> <<>>, count |-> Fill(ndepth, 0), ratio |-> Fill(ndepth, 0),
   equivalent |-> [t \in HwTypes |->
                     IF \E i \in 0 .. ndepth - 1 : types[i] = t THEN t
                     ELSE KMP_HW_UNKNOWN],
   uniform |-> FALSE, compact |-> 0, num_core_types |-> 0,
   core_types |-> <<>>, num_core_efficiencies |-> 0]

NoTopology == allocate(0, 0, <<>>)

check_ids(T) ==
  \A i \in 1 .. T.num_hw_threads - 1 :
    \E j \in 0 .. T.depth - 1 :
      T.hw_threads[i - 1].ids[j] # T.hw_threads[i].ids[j]

(***************************************************************************)
(* kmp_topology_t: insert_layer                                            *)
(***************************************************************************)
(* One pass of the inner loop for a target layer: returns the verdict and  *)
(* the previous ids carried over to the next target layer.                 *)
RECURSIVE insert_layer_scan(_, _, _, _, _, _)
insert_layer_scan(T, ids, target_layer, i, previous_id, previous_new_id) ==
  IF i >= T.num_hw_threads
    THEN [verdict |-> "equal", previous_id |-> previous_id,
          previous_new_id |-> previous_new_id]
    ELSE LET id == T.hw_threads[i].ids[target_layer]
             new_id == ids[i]
         IN IF id # previous_id /\ new_id = previous_new_id
              THEN [verdict |-> "above", previous_id |-> previous_id,
                    previous_new_id |-> previous_new_id]
            ELSE IF id = previous_id /\ new_id # previous_new_id
              THEN [verdict |-> "below", previous_id |-> previous_id,
                    previous_new_id |-> previous_new_id]
            ELSE insert_layer_scan(T, ids, target_layer, i + 1, id, new_id)

RECURSIVE insert_layer_target(_, _, _, _, _)
insert_layer_target(T, ids, target_layer, previous_id, previous_new_id) ==
  IF target_layer >= T.depth THEN target_layer
  ELSE LET r == insert_layer_scan(T, ids, target_layer, 0, previous_id,
                                  previous_new_id)
       IN IF r.verdict \in {"above", "equal"} THEN target_layer
          ELSE insert_layer_target(T, ids, target_layer + 1, r.previous_id,
                                   r.previous_new_id)

insert_layer(T, type, ids) ==
  LET target_layer == insert_layer_target(T, ids, 0, UNKNOWN_ID, UNKNOWN_ID)
  IN [T EXCEPT
        !.types = InsertAt(T.types, T.depth, target_layer, type),
        !.hw_threads =
          [k \in 0 .. T.num_hw_threads - 1 |->
             [T.hw_threads[k] EXCEPT
                !.ids = InsertAt(T.hw_threads[k].ids, T.depth, target_layer,
                                 ids[k]),
                !.sub_ids = Fill(T.depth + 1, 0)]],
        !.equivalent = [T.equivalent EXCEPT ![type] = type],
        !.count = Fill(T.depth + 1, 0),
        !.ratio = Fill(T.depth + 1, 0),
        !.depth = T.depth + 1]

(***************************************************************************)
(* kmp_topology_t: _remove_radix1_layers                                   *)
(***************************************************************************)
preference(type) ==
  CASE type = "SOCKET" -> 110
    [] type = "PROC_GROUP" -> 100
    [] type = "CORE" -> 95
    [] type = "THREAD" -> 90
    [] type = "NUMA" -> 85
    [] type = "DIE" -> 80
    [] type = "TILE" -> 75
    [] type = "MODULE" -> 73
    [] type = "L3" -> 70
    [] type = "L2" -> 65
    [] type = "L1" -> 60
    [] type = "LLC" -> 5

MainLevels == {"THREAD", "CORE", "SOCKET"}

(* variant: no pair is skipped *)
radix1_skip_never(type1, type2) == FALSE

(* the pair of adjacent layers is skipped without looking at the ids *)
radix1_skip(type1, type2) == type1 \in MainLevels /\ type2 \in MainLevels

radix1(T, top_index1, top_index2) ==
  \A hwidx \in 1 .. T.num_hw_threads - 1 :
    ~ (/\ T.hw_threads[hwidx].ids[top_index1] =
            T.hw_threads[hwidx - 1].ids[top_index1]
       /\ T.hw_threads[hwidx].ids[top_index2] #
            T.hw_threads[hwidx - 1].ids[top_index2])

all_same(T, top_index2) ==
  \A hwidx \in 1 .. T.num_hw_threads - 1 :
    T.hw_threads[hwidx].ids[top_index2] = T.hw_threads[hwidx - 1].ids[top_index2]

(* index of the ids column dropped when the pair is radix-1 *)
remove_layer_ids(T, top_index1, top_index2) ==
  IF all_same(T, top_index2) THEN top_index2
  ELSE IF preference(T.types[top_index1]) > preference(T.types[top_index2])
    THEN top_index2
  ELSE top_index1

(* variant: the removed kind is not recorded as standing for the kept one *)
remove_one_layer_unrecorded(T, top_index1, top_index2) ==
  LET type1 == T.types[top_index1]
      type2 == T.types[top_index2]
      keep1 == preference(type1) > preference(type2)
      remove_layer == IF keep1 THEN top_index2 ELSE top_index1
      rl_ids == remove_layer_ids(T, top_index1, top_index2)
  IN [T EXCEPT
        !.hw_threads =
          [idx \in 0 .. T.num_hw_threads - 1 |->
             [T.hw_threads[idx] EXCEPT
                !.ids = RemoveAt(T.hw_threads[idx].ids, T.depth, rl_ids),
                !.sub_ids = Fill(T.depth - 1, 0)]],
        !.types = RemoveAt(T.types, T.depth, remove_layer),
        !.count = Fill(T.depth - 1, 0),
        !.ratio = Fill(T.depth - 1, 0),
        !.depth = T.depth - 1]

remove_one_layer(T, top_index1, top_index2) ==
  LET type1 == T.types[top_index1]
      type2 == T.types[top_index2]
      keep1 == preference(type1) > preference(type2)
      remove_type == IF keep1 THEN type2 ELSE type1
      keep_type == IF keep1 THEN type1 ELSE type2
      remove_layer == IF keep1 THEN top_index2 ELSE top_index1
      rl_ids == remove_layer_ids(T, top_index1, top_index2)
      E == set_equivalent_type(T, remove_type, keep_type)
  IN [E EXCEPT
        !.hw_threads =
          [idx \in 0 .. T.num_hw_threads - 1 |->
             [T.hw_threads[idx] EXCEPT
                !.ids = RemoveAt(T.hw_threads[idx].ids, T.depth, rl_ids),
                !.sub_ids = Fill(T.depth - 1, 0)]],
        !.types = RemoveAt(T.types, T.depth, remove_layer),
        !.count = Fill(T.depth - 1, 0),
        !.ratio = Fill(T.depth - 1, 0),
        !.depth = T.depth - 1]

RECURSIVE remove_radix1_loop(_, _, _)
remove_radix1_loop(T, top_index1, top_index2) ==
  IF ~ (top_index1 < T.depth - 1 /\ top_index2 < T.depth) THEN T
  ELSE IF radix1_skip(T.types[top_index1], T.types[top_index2])
    THEN remove_radix1_loop(T, top_index2, top_index2 + 1)
  ELSE IF radix1(T, top_index1, top_index2)
    THEN remove_radix1_loop(remove_one_layer(T, top_index1, top_index2),
                            top_index1, top_index2)
  ELSE remove_radix1_loop(T, top_index2, top_index2 + 1)

_remove_radix1_layers(T) == remove_radix1_loop(T, 0, 1)

(* the collapses of the loop, in order: the topology before, the pair and  *)
(* the topology after                                                      *)
RECURSIVE radix1_collapses(_, _, _)
radix1_collapses(T, top_index1, top_index2) ==
  IF ~ (top_index1 < T.depth - 1 /\ top_index2 < T.depth) THEN <<>>
  ELSE IF radix1_skip(T.types[top_index1], T.types[top_index2])
    THEN radix1_collapses(T, top_index2, top_index2 + 1)
  ELSE IF radix1(T, top_index1, top_index2)
    THEN With(remove_one_layer(T, top_index1, top_index2), LAMBDA after :
           <<[before |-> T, top_index1 |-> top_index1,
              top_index2 |-> top_index2, after |-> after]>>
             \o radix1_collapses(after, top_index1, top_index2))
  ELSE radix1_collapses(T, top_index2, top_index2 + 1)

(***************************************************************************)
(* kmp_topology_t: _set_last_level_cache                                   *)
(***************************************************************************)
(* variant: the innermost known cache kind first *)
llc_cache_innermost(T) ==
  IF get_equivalent_type(T, "L1") # KMP_HW_UNKNOWN THEN "L1"
  ELSE IF get_equivalent_type(T, "L2") # KMP_HW_UNKNOWN THEN "L2"
  ELSE IF get_equivalent_type(T, "L3") # KMP_HW_UNKNOWN THEN "L3"
  ELSE KMP_HW_UNKNOWN

llc_cache_choice(T) ==
  IF get_equivalent_type(T, "L3") # KMP_HW_UNKNOWN THEN "L3"
  ELSE IF get_equivalent_type(T, "L2") # KMP_HW_UNKNOWN THEN "L2"
  ELSE IF machine.mic3
    THEN IF get_equivalent_type(T, "TILE") # KMP_HW_UNKNOWN THEN "TILE"
         ELSE "L1"
  ELSE IF get_equivalent_type(T, "L1") # KMP_HW_UNKNOWN THEN "L1"
  ELSE KMP_HW_UNKNOWN

_set_last_level_cache(T) ==
  LET c == llc_cache_choice(T)
      T1 == IF c # KMP_HW_UNKNOWN THEN set_equivalent_type(T, "LLC", c) ELSE T
  IN IF get_equivalent_type(T1, "LLC") = KMP_HW_UNKNOWN
       THEN IF get_equivalent_type(T1, "SOCKET") # KMP_HW_UNKNOWN
              THEN set_equivalent_type(T1, "LLC", "SOCKET")
            ELSE IF get_equivalent_type(T1, "CORE") # KMP_HW_UNKNOWN
              THEN set_equivalent_type(T1, "LLC", "CORE")
            ELSE T1
       ELSE T1

(***************************************************************************)
(* kmp_topology_t: _gather_enumeration_information                         *)
(***************************************************************************)
FirstDiff(ids, previous_id, depth) ==
  LET D == {layer \in 0 .. depth - 1 : ids[layer] # previous_id[layer]}
  IN IF D = {} THEN -1 ELSE CHOOSE l \in D : \A m \in D : l <= m

gather_thread(T, acc, hw_thread, core_level) ==
  LET layer == FirstDiff(hw_thread.ids, acc.previous_id, T.depth)
      max1 == [acc.max EXCEPT ![layer] =
                 IF hw_thread.ids[layer] # UNKNOWN_ID THEN @ + 1 ELSE @]
      hyb == __kmp_is_hybrid_cpu /\ core_level >= 0 /\ layer <= core_level
      a == hw_thread.attrs
      new_type == /\ hyb
                  /\ is_core_type_valid(a)
                  /\ \A j \in 1 .. Len(acc.core_types) :
                       acc.core_types[j] # a.core_type
  IN IF layer = -1 THEN [acc EXCEPT !.previous_id = hw_thread.ids]
     ELSE [previous_id |-> hw_thread.ids,
           count |-> [l \in 0 .. T.depth - 1 |->
                        IF l >= layer /\ hw_thread.ids[l] # UNKNOWN_ID
                          THEN acc.count[l] + 1 ELSE acc.count[l]],
           ratio |-> [l \in 0 .. T.depth - 1 |->
                        IF l > layer /\ max1[l] > acc.ratio[l]
                          THEN max1[l] ELSE acc.ratio[l]],
           max |-> [l \in 0 .. T.depth - 1 |-> IF l > layer THEN 1 ELSE max1[l]],
           num_core_efficiencies |->
             IF hyb /\ is_core_eff_valid(a) /\ a.core_eff >= acc.num_core_efficiencies
               THEN a.core_eff + 1 ELSE acc.num_core_efficiencies,
           core_types |-> IF new_type THEN Append(acc.core_types, a.core_type)
                          ELSE acc.core_types]

RECURSIVE gather_loop(_, _, _, _)
gather_loop(T, acc, i, core_level) ==
  IF i >= T.num_hw_threads THEN acc
  ELSE LET a == gather_thread(T, acc, T.hw_threads[i], core_level)
       IN Then(a, gather_loop(T, a, i + 1, core_level))

_gather_enumeration_information(T) ==
  With(gather_loop(T, [previous_id |-> Fill(T.depth, UNKNOWN_ID),
                       count |-> Fill(T.depth, 0), ratio |-> Fill(T.depth, 0),
                       max |-> Fill(T.depth, 0),
                       num_core_efficiencies |-> T.num_core_efficiencies,
                       core_types |-> T.core_types],
                   0, get_level(T, "CORE")), LAMBDA acc :
    [T EXCEPT
       !.count = acc.count,
       !.ratio = [l \in 0 .. T.depth - 1 |-> Max2(acc.ratio[l], acc.max[l])],
       !.num_core_efficiencies = acc.num_core_efficiencies,
       !.core_types = acc.core_types,
       !.num_core_types = Len(acc.core_types)])

_discover_uniformity(T) ==
  [T EXCEPT !.uniform =
     (Product(T.ratio, 0, T.depth - 1) = T.count[T.depth - 1])]

(***************************************************************************)
(* kmp_topology_t: _set_sub_ids                                            *)
(***************************************************************************)
RECURSIVE set_sub_ids_loop(_, _, _, _)
set_sub_ids_loop(T, i, previous_id, sub_id) ==
  IF i >= T.num_hw_threads THEN T
  ELSE LET ids == T.hw_threads[i].ids
           j == FirstDiff(ids, previous_id, T.depth)
           s == IF j = -1 THEN sub_id
                ELSE [k \in 0 .. T.depth - 1 |->
                        IF k = j THEN sub_id[k] + 1
                        ELSE IF k > j THEN 0 ELSE sub_id[k]]
           T1 == [T EXCEPT !.hw_threads[i].sub_ids = s]
       IN Then(T1, set_sub_ids_loop(T1, i + 1, ids, s))

_set_sub_ids(T) ==
  set_sub_ids_loop(T, 0, Fill(T.depth, -1), Fill(T.depth, -1))

(***************************************************************************)
(* kmp_topology_t: _set_globals                                            *)
(***************************************************************************)
(* get_count(level); a level outside 0 .. depth-1 reads outside the array  *)
get_count(T, level) == T.count[level]

get_ratio(T, level) == T.ratio[level]

package_level(T) ==
  IF get_level(T, "SOCKET") = -1 /\ machine.windows
    THEN get_level(T, "PROC_GROUP") ELSE get_level(T, "SOCKET")

_set_globals(T) ==
  LET core_level == get_level(T, "CORE")
      thread_level == get_level(T, "THREAD")
      pkg_level == package_level(T)
  IN [nThreadsPerCore |-> calculate_ratio(T, thread_level, core_level),
      nCoresPerPkg |-> IF pkg_level # -1
                         THEN calculate_ratio(T, core_level, pkg_level)
                         ELSE get_count(T, core_level),
      nPackages |-> IF pkg_level # -1 THEN get_count(T, pkg_level) ELSE 1,
      ncores |-> get_count(T, core_level)]

(* the KMP_ASSERTs of _set_globals *)
set_globals_asserts(T) ==
  get_level(T, "CORE") # -1 /\ get_level(T, "THREAD") # -1

(***************************************************************************)
(* kmp_topology_t: canonicalize                                            *)
(***************************************************************************)
BITS_PER_GROUP == 64

__kmp_get_proc_group(os_id) == os_id \div BITS_PER_GROUP

_insert_windows_proc_groups(T) ==
  IF machine.num_proc_groups = 1 THEN T
  ELSE sort_ids(insert_layer(T, "PROC_GROUP",
         [i \in 0 .. T.num_hw_threads - 1 |->
            __kmp_get_proc_group(T.hw_threads[i].os_id)]))

mic3_equivalence(T) ==
  IF ~ machine.mic3 THEN T
  ELSE IF get_level(T, "L2") # -1 THEN set_equivalent_type(T, "TILE", "L2")
  ELSE IF get_level(T, "TILE") # -1 THEN set_equivalent_type(T, "L2", "TILE")
  ELSE T

(* the checks canonicalize() performs before it returns *)
post_canonicalization_checks(T) ==
  /\ T.depth > 0
  /\ \A level \in 0 .. T.depth - 1 :
       /\ T.count[level] > 0 /\ T.ratio[level] > 0
       /\ T.equivalent[T.types[level]] = T.types[level]

(* what _set_globals leaves when its assertions are compiled out and fail: *)
(* it reads count[] and ratio[] at level -1, outside the arrays            *)
UnsetGlobals ==
  {[nThreadsPerCore |-> n, nCoresPerPkg |-> n, nPackages |-> n, ncores |-> n] :
     n \in {0, 1}}

(* G: the globals it may leave *)
canonicalize(T0) ==
  With(_remove_radix1_layers(IF machine.windows
                               THEN _insert_windows_proc_groups(T0) ELSE T0),
       LAMBDA T2 :
  With(_set_sub_ids(_discover_uniformity(_gather_enumeration_information(T2))),
       LAMBDA T3 :
  With(_set_last_level_cache(T3), LAMBDA T4 :
  With(mic3_equivalence(T4), LAMBDA T5 :
    [T |-> T5,
     G |-> IF set_globals_asserts(T3) THEN {_set_globals(T3)} ELSE UnsetGlobals,
     ok |-> /\ T2.depth > 0
            /\ set_globals_asserts(T3)
            /\ get_equivalent_type(T4, "LLC") # KMP_HW_UNKNOWN
            /\ post_canonicalization_checks(T5)]))))

(***************************************************************************)
(* Discovery back-ends                                                     *)
(***************************************************************************)
RECURSIVE SetToSeq(_)
SetToSeq(S) ==
  IF S = {} THEN <<>>
  ELSE LET x == CHOOSE x \in S : \A y \in S : x <= y
       IN <<x>> \o SetToSeq(S \ {x})

MainTypes == Arr(<<"SOCKET", "CORE", "THREAD">>)

GroupTypes == Arr(<<"PROC_GROUP", "CORE", "THREAD">>)

WithThreads(T, hw) == [T EXCEPT !.hw_threads = hw]

(* variant: one package that holds a core for every OS proc *)
__kmp_affinity_create_flat_map_one_package(mask) ==
  LET os == Arr(SetToSeq(mask))
      n == Cardinality(mask)
  IN [ok |-> TRUE,
      T |-> WithThreads(allocate(n, 3, MainTypes),
              [k \in 0 .. n - 1 |->
                 HwThread(os[k], k, Arr(<<0, os[k], 0>>), NoAttrs)]),
      G |-> [nThreadsPerCore |-> 1, nCoresPerPkg |-> n, nPackages |-> 1,
             ncores |-> n]]

__kmp_affinity_create_flat_map(mask) ==
  LET os == Arr(SetToSeq(mask))
      n == Cardinality(mask)
  IN [ok |-> TRUE,
      T |-> WithThreads(allocate(n, 3, MainTypes),
              [k \in 0 .. n - 1 |->
                 HwThread(os[k], k, Arr(<<os[k], 0, 0>>), NoAttrs)]),
      G |-> [nThreadsPerCore |-> 1, nCoresPerPkg |-> 1, nPackages |-> n,
             ncores |-> n]]

__kmp_affinity_create_proc_group_map(mask) ==
  LET os == Arr(SetToSeq(mask))
      n == Cardinality(mask)
  IN [ok |-> TRUE,
      T |-> WithThreads(allocate(n, 3, GroupTypes),
              [k \in 0 .. n - 1 |->
                 HwThread(os[k], k,
                          Arr(<<os[k] \div BITS_PER_GROUP,
                                os[k] % BITS_PER_GROUP,
                                os[k] % BITS_PER_GROUP>>), NoAttrs)]),
      G |-> globals]

(* the records of the machine table whose OS proc is in the full mask,     *)
(* in table order                                                          *)
Included(rows, mask) ==
  SelectSeq(rows, LAMBDA r : r.os_id \in mask)

(* ---- /proc/cpuinfo ---- *)
(* an absent field holds UINT_MAX, the bit pattern of the int -1; the      *)
(* table is compared as unsigned                                           *)
UIntKey(x) == IF x = -1 THEN 2147483647 ELSE x

RECURSIVE cmp_phys_id_from(_, _, _)
cmp_phys_id_from(aa, bb, i) ==
  IF i > 2
    THEN IF aa.os_id < bb.os_id THEN -1 ELSE IF aa.os_id > bb.os_id THEN 1 ELSE 0
  ELSE IF UIntKey(aa.ids[i]) < UIntKey(bb.ids[i]) THEN -1
  ELSE IF UIntKey(aa.ids[i]) > UIntKey(bb.ids[i]) THEN 1
  ELSE cmp_phys_id_from(aa, bb, i + 1)

__kmp_affinity_cmp_ProcCpuInfo_phys_id(aa, bb) == cmp_phys_id_from(aa, bb, 0)

(* auto-assignment of one record's thread id field *)
auto_thread_id(t, threadIdCt) ==
  IF t = -1 THEN [id |-> threadIdCt, ct |-> threadIdCt + 1]
  ELSE IF threadIdCt <= t THEN [id |-> t, ct |-> t + 1]
  ELSE [id |-> t, ct |-> threadIdCt]

(* one run of the loop after restart_radix_check; info is the table sorted *)
(* by physical id, a sequence of records with ids = (pkg, core, thread)    *)
RECURSIVE radix_check_loop(_, _, _, _, _)
radix_check_loop(info, i, assign_thread_ids, threadIdCt, lastId) ==
  IF i > Len(info) THEN [status |-> "ok", info |-> info]
  ELSE LET r == info[i]
           top == IF r.ids[0] # lastId[0] THEN 0
                  ELSE IF r.ids[1] # lastId[1] THEN 1 ELSE 2
           a == IF assign_thread_ids
                  THEN auto_thread_id(r.ids[2], IF top < 2 THEN 0 ELSE threadIdCt)
                  ELSE [id |-> r.ids[2], ct |-> threadIdCt]
           info1 == [info EXCEPT ![i].ids[2] = a.id]
       IN IF top < 2
            THEN Then(info1, radix_check_loop(info1, i + 1, assign_thread_ids,
                                              a.ct, r.ids))
          ELSE IF a.id # lastId[2]
            THEN Then(info1, radix_check_loop(info1, i + 1, assign_thread_ids,
                                              a.ct, [lastId EXCEPT ![2] = a.id]))
          ELSE IF a.id # -1 \/ assign_thread_ids
            THEN [status |-> "not_unique", info |-> info1]
          ELSE [status |-> "restart", info |-> info]

radix_check(info, assign_thread_ids) ==
  LET a == IF assign_thread_ids THEN auto_thread_id(info[1].ids[2], 0)
           ELSE [id |-> info[1].ids[2], ct |-> 0]
      info1 == [info EXCEPT ![1].ids[2] = a.id]
  IN radix_check_loop(info1, 2, assign_thread_ids, a.ct, info1[1].ids)

(* thread ids still absent after the sort are filled in from the previous  *)
(* thread                                                                  *)
RECURSIVE fill_thread_ids(_, _, _)
fill_thread_ids(T, tlevel, i) ==
  IF i >= T.num_hw_threads THEN T
  ELSE IF T.hw_threads[i].ids[tlevel] # UNKNOWN_ID
    THEN fill_thread_ids(T, tlevel, i + 1)
  ELSE LET changed == i > 0 /\ \E j \in 0 .. tlevel - 1 :
                        T.hw_threads[i].ids[j] # T.hw_threads[i - 1].ids[j]
           v == IF i = 0 \/ changed THEN 0
                ELSE T.hw_threads[i - 1].ids[tlevel] + 1
           T1 == [T EXCEPT !.hw_threads[i].ids[tlevel] = v]
       IN Then(T1, fill_thread_ids(T1, tlevel, i + 1))

__kmp_affinity_create_cpuinfo_map(mask) ==
  With(SortSeq(Included(machine.rows, mask),
         LAMBDA x, y : __kmp_affinity_cmp_ProcCpuInfo_phys_id(x, y) < 0),
       LAMBDA threadInfo :
  With(radix_check(threadInfo, FALSE), LAMBDA first :
  With(IF first.status = "restart" THEN radix_check(threadInfo, TRUE) ELSE first,
       LAMBDA res :
  With(WithThreads(allocate(Len(threadInfo), 3, MainTypes),
         [k \in 0 .. Len(threadInfo) - 1 |->
            HwThread(res.info[k + 1].os_id, k, res.info[k + 1].ids, NoAttrs)]),
       LAMBDA T0 :
  With(fill_thread_ids(sort_ids(T0), get_level(T0, "THREAD"), 0), LAMBDA T1 :
    IF \E k \in 1 .. Len(threadInfo) : threadInfo[k].ids[0] = -1
      THEN [ok |-> FALSE, T |-> NoTopology, G |-> globals]
    ELSE IF res.status # "ok" \/ ~ check_ids(T1)
      THEN [ok |-> FALSE, T |-> NoTopology, G |-> globals]
    ELSE [ok |-> TRUE, T |-> T1, G |-> globals])))))

(* ---- CPUID leaf 0x1F / 0xB ---- *)
RECURSIVE logical_ids_loop(_, _, _, _, _, _)
logical_ids_loop(T, j, i, prev_id, curr_id, new_id) ==
  IF i >= T.num_hw_threads THEN T
  ELSE LET ids == T.hw_threads[i].ids
           same == [T EXCEPT !.hw_threads[i].ids[j + 1] = new_id]
           next == [T EXCEPT !.hw_threads[i].ids[j + 1] = new_id + 1]
       IN IF ids[j] = prev_id /\ ids[j + 1] = curr_id
            THEN Then(same, logical_ids_loop(same, j, i + 1, prev_id, curr_id,
                                             new_id))
          ELSE IF ids[j] = prev_id
            THEN Then(next, logical_ids_loop(next, j, i + 1, prev_id,
                                             ids[j + 1], new_id + 1))
          ELSE Then(next, logical_ids_loop(next, j, i + 1, ids[j], ids[j + 1],
                                           new_id + 1))

RECURSIVE logical_ids(_, _)
logical_ids(T, j) ==
  IF j >= T.depth - 1 THEN T
  ELSE LET ids == T.hw_threads[0].ids
       IN logical_ids(
            logical_ids_loop([T EXCEPT !.hw_threads[0].ids[j + 1] = 0],
                             j, 1, ids[j], ids[j + 1], 0),
            j + 1)

CacheLevels == <<"L1", "L2", "L3">>

RECURSIVE cache_equivalences(_, _)
cache_equivalences(T, k) ==
  IF k > Len(machine.caches) THEN T
  ELSE LET c == machine.caches[k]
           T1 == IF machine.uniform_caches
                   THEN LET T2 == set_equivalent_type(T, c.type, c.type)
                        IN IF c.same_as # KMP_HW_UNKNOWN
                             THEN set_equivalent_type(T2, c.type, c.same_as)
                             ELSE T2
                 ELSE IF get_equivalent_type(T, c.type) = KMP_HW_UNKNOWN
                   THEN set_equivalent_type(T, c.type, c.type)
                 ELSE T
       IN cache_equivalences(T1, k + 1)

cache_ids(T, type) ==
  LET c == CHOOSE c \in {machine.caches[k] : k \in 1 .. Len(machine.caches)} :
             c.type = type
      pos(os) == CHOOSE k \in 1 .. Len(machine.rows) : machine.rows[k].os_id = os
  IN [i \in 0 .. T.num_hw_threads - 1 |-> c.ids[pos(T.hw_threads[i].os_id)]]

RECURSIVE insert_cache_layers(_, _)
insert_cache_layers(T, l) ==
  IF l > Len(CacheLevels) THEN T
  ELSE IF get_equivalent_type(T, CacheLevels[l]) # CacheLevels[l]
    THEN insert_cache_layers(T, l + 1)
  ELSE insert_cache_layers(
         insert_layer(T, CacheLevels[l], cache_ids(T, CacheLevels[l])), l + 1)

__kmp_affinity_create_x2apicid_map(mask) ==
  LET proc_info == Included(machine.rows, mask)
      n == Len(proc_info)
      T0 == WithThreads(allocate(n, Len(machine.types), Arr(machine.types)),
              [k \in 0 .. n - 1 |->
                 HwThread(proc_info[k + 1].os_id, k, proc_info[k + 1].ids,
                          proc_info[k + 1].attrs)])
      T1 == logical_ids(sort_ids(T0), 0)
      T2 == insert_cache_layers(cache_equivalences(T1, 1), 1)
  IN IF \E k \in 1 .. n : DOMAIN proc_info[k].ids = {}
       THEN [ok |-> FALSE, T |-> NoTopology, G |-> globals]
     ELSE IF check_ids(T2) THEN [ok |-> TRUE, T |-> T2, G |-> globals]
     ELSE [ok |-> FALSE, T |-> NoTopology, G |-> globals]

(* ---- CPUID leaves 1 and 4: the legacy APIC ids ---- *)
RECURSIVE Pow2(_)
Pow2(n) == IF n = 0 THEN 1 ELSE 2 * Pow2(n - 1)

RECURSIVE __kmp_cpuid_mask_width_from(_, _)
__kmp_cpuid_mask_width_from(count, r) ==
  IF Pow2(r) < count THEN __kmp_cpuid_mask_width_from(count, r + 1) ELSE r

__kmp_cpuid_mask_width(count) == __kmp_cpuid_mask_width_from(count, 0)

(* a record of machine.rows holds the APIC id of the processor, its        *)
(* maxThreadsPerPkg and its maxCoresPerPkg; the package, core and thread   *)
(* ids are fields of the APIC id                                           *)
apicThreadInfo(row) ==
  With(IF row.ids[1] = 0 THEN 1 ELSE row.ids[1], LAMBDA maxThreadsPerPkg :
  With(__kmp_cpuid_mask_width(maxThreadsPerPkg), LAMBDA widthCT :
  With(__kmp_cpuid_mask_width(row.ids[2]), LAMBDA widthC :
  With(IF widthCT < widthC THEN 0 ELSE widthCT - widthC, LAMBDA widthT :
    [osId |-> row.os_id, apicId |-> row.ids[0],
     maxThreadsPerPkg |-> maxThreadsPerPkg, maxCoresPerPkg |-> row.ids[2],
     valid |-> widthCT >= widthC,
     pkgId |-> row.ids[0] \div Pow2(widthCT),
     coreId |-> (row.ids[0] \div Pow2(widthT)) % Pow2(widthC),
     threadId |-> row.ids[0] % Pow2(widthT)]))))

__kmp_affinity_cmp_apicThreadInfo_phys_id(aa, bb) ==
  IF aa.pkgId < bb.pkgId THEN -1
  ELSE IF aa.pkgId > bb.pkgId THEN 1
  ELSE IF aa.coreId < bb.coreId THEN -1
  ELSE IF aa.coreId > bb.coreId THEN 1
  ELSE IF aa.threadId < bb.threadId THEN -1
  ELSE IF aa.threadId > bb.threadId THEN 1
  ELSE 0

(* the walk over the sorted table: two records of one id, or two records   *)
(* of a package that disagree on its maxima, fail it                       *)
apic_table_ok(threadInfo) ==
  \A i \in 2 .. Len(threadInfo) :
    threadInfo[i].pkgId = threadInfo[i - 1].pkgId =>
      /\ __kmp_affinity_cmp_apicThreadInfo_phys_id(threadInfo[i - 1], threadInfo[i]) # 0
      /\ \A j \in 1 .. i - 1 :
            threadInfo[j].pkgId = threadInfo[i].pkgId =>
              /\ threadInfo[j].maxCoresPerPkg = threadInfo[i].maxCoresPerPkg
              /\ threadInfo[j].maxThreadsPerPkg = threadInfo[i].maxThreadsPerPkg

(* the radii the walk finds *)
apic_globals(threadInfo) ==
  LET n == Len(threadInfo)
      pkgs == {threadInfo[i].pkgId : i \in 1 .. n}
      cores == {<<threadInfo[i].pkgId, threadInfo[i].coreId>> : i \in 1 .. n}
      coresOf(p) == Cardinality({c \in cores : c[1] = p})
      threadsOf(c) ==
        Cardinality({i \in 1 .. n : <<threadInfo[i].pkgId, threadInfo[i].coreId>> = c})
  IN [nPackages |-> Cardinality(pkgs),
      nCoresPerPkg |-> CHOOSE k \in {coresOf(p) : p \in pkgs} :
                         \A p \in pkgs : coresOf(p) <= k,
      nThreadsPerCore |-> CHOOSE k \in {threadsOf(c) : c \in cores} :
                            \A c \in cores : threadsOf(c) <= k,
      ncores |-> Cardinality(cores)]

__kmp_affinity_create_apicid_map(mask) ==
  With([k \in 1 .. Len(Included(machine.rows, mask)) |->
          apicThreadInfo(Included(machine.rows, mask)[k])], LAMBDA read :
  With(SortSeq(read, LAMBDA x, y :
                 __kmp_affinity_cmp_apicThreadInfo_phys_id(x, y) < 0),
       LAMBDA threadInfo :
  With(sort_ids(WithThreads(allocate(Len(threadInfo), 3, MainTypes),
         [k \in 0 .. Len(threadInfo) - 1 |->
            HwThread(threadInfo[k + 1].osId, k,
                     Arr(<<threadInfo[k + 1].pkgId, threadInfo[k + 1].coreId,
                           threadInfo[k + 1].threadId>>), NoAttrs)])),
       LAMBDA T :
    IF \E k \in 1 .. Len(read) : ~ read[k].valid
      THEN [ok |-> FALSE, T |-> NoTopology, G |-> globals]
    ELSE IF ~ apic_table_ok(threadInfo) \/ ~ check_ids(T)
      THEN [ok |-> FALSE, T |-> NoTopology, G |-> globals]
    ELSE [ok |-> TRUE, T |-> T, G |-> apic_globals(threadInfo)])))

(* ---- hwloc ---- *)
(* machine.rows lists every PU of the hwloc tree in logical order with the *)
(* logical index of its outermost object and, below it, the index of each  *)
(* object among the children of its parent                                 *)
__kmp_affinity_create_hwloc_map(mask) ==
  LET pus == Included(machine.rows, mask)
      n == Len(pus)
  IN [ok |-> TRUE,
      T |-> sort_ids(WithThreads(allocate(n, Len(machine.types), Arr(machine.types)),
              [k \in 0 .. n - 1 |->
                 HwThread(pus[k + 1].os_id, k, pus[k + 1].ids, pus[k + 1].attrs)])),
      G |-> globals]

(***************************************************************************)
(* Warnings                                                                *)
(***************************************************************************)
(* KMP_AFF_WARNING(s, ...): the set of messages it prints *)
(* variant: printed whatever the settings *)
KMP_AFF_WARNING_always(s, msg) == {msg}

KMP_AFF_WARNING(s, msg) ==
  IF s.flags.verbose \/ (s.flags.warnings /\ s.type # "none") THEN {msg} ELSE {}

(***************************************************************************)
(* kmp_topology_t: restrict_to_mask                                        *)
(***************************************************************************)
(* state of the topology together with the process-wide mask and counters *)
Sys(T, fullMask, origMask, avail_proc, G) ==
  [T |-> T, fullMask |-> fullMask, origMask |-> origMask,
   avail_proc |-> avail_proc, G |-> G, ok |-> TRUE]

(* variant: membership of the position in the thread array *)
in_mask_by_index(hw_thread, mask) == hw_thread.original_idx \in mask

in_mask(hw_thread, mask) == hw_thread.os_id \in mask

restrict_to_mask(S, mask) ==
  With(SelectSeq(ToSeq(S.T.hw_threads, S.T.num_hw_threads),
                 LAMBDA h : in_mask(h, mask)), LAMBDA kept :
  With([S.T EXCEPT !.hw_threads = Arr(kept), !.num_hw_threads = Len(kept)],
       LAMBDA T1 :
  With(_discover_uniformity(_gather_enumeration_information(T1)), LAMBDA T2 :
  With(_set_last_level_cache(T2), LAMBDA T3 :
    LET T == S.T
        removed == {T.hw_threads[i].os_id : i \in
                      {k \in 0 .. T.num_hw_threads - 1 :
                         ~ in_mask(T.hw_threads[k], mask)}}
        new_index == Len(kept)
        affected == T.num_hw_threads # new_index
        fullMask == S.fullMask \ removed
    IN [S EXCEPT
          !.T = IF affected THEN T3 ELSE T1,
          !.fullMask = fullMask,
          !.avail_proc = S.avail_proc - (T.num_hw_threads - new_index),
          !.G = IF affected THEN _set_globals(T2) ELSE S.G,
          !.origMask = IF affected /\ ~ (machine.windows /\ machine.num_proc_groups > 1)
                         THEN fullMask ELSE S.origMask,
          !.ok = S.ok /\ (affected =>
                   /\ set_globals_asserts(T2)
                   /\ get_equivalent_type(T3, "LLC") # KMP_HW_UNKNOWN)]))))

(* kmp_full_mask_modifier_t: include() accumulates into mask *)
full_mask_restrict_to_mask(S, mask) ==
  IF S.fullMask = mask \/ mask = {} THEN S ELSE restrict_to_mask(S, mask)

(***************************************************************************)
(* kmp_hw_subset_t and filter_hw_subset                                    *)
(***************************************************************************)
USE_ALL == 2147483647

SubItem(type, num, offset) ==
  [type |-> type, num |-> <<num>>, offset |-> <<offset>>, attr |-> <<NoAttrs>>]

NoSubset == [requested |-> FALSE, absolute |-> FALSE, items |-> <<>>]

Subset(absolute, items) == [requested |-> TRUE, absolute |-> absolute, items |-> items]

(* kmp_hw_subset_t::sort: items ordered by the level of their layer *)
hw_subset_sort(T, items) ==
  SortSeq(items, LAMBDA x, y : get_level(T, x.type) < get_level(T, y.type))

(* kmp_hw_subset_t::canonicalize: a relative request on a machine with     *)
(* socket, core and thread layers gets the missing ones of the three as    *)
(* "all" items and becomes an absolute request targeting its layers        *)
hw_subset_targeted == <<"SOCKET", "CORE", "THREAD">>

hw_subset_canonicalize(T, sub) ==
  IF sub.absolute \/ \E k \in 1 .. 3 : get_level(T, hw_subset_targeted[k]) = -1
    THEN sub
  ELSE LET missing == SelectSeq(hw_subset_targeted, LAMBDA type :
                        ~ \E i \in 1 .. Len(sub.items) :
                            get_equivalent_type(T, sub.items[i].type) = type)
           added == [k \in 1 .. Len(missing) |-> SubItem(missing[k], USE_ALL, 0)]
       IN [sub EXCEPT !.items = hw_subset_sort(T, sub.items \o added),
                      !.absolute = TRUE]

attr_contains(a, other) ==
  IF ~ a.valid /\ ~ other.valid THEN TRUE
  ELSE IF a.valid /\ other.valid
    THEN /\ is_core_type_valid(other) =>
              (is_core_type_valid(a) /\ other.core_type = a.core_type)
         /\ is_core_eff_valid(other) =>
              (is_core_eff_valid(a) /\ other.core_eff = a.core_eff)
  ELSE FALSE

RECURSIVE ncores_with_attr_loop(_, _, _, _, _, _, _)
ncores_with_attr_loop(T, attr, above_level, i, previous_id, current, current_max) ==
  IF i >= T.num_hw_threads THEN Max2(current, current_max)
  ELSE LET hw == T.hw_threads[i]
           core_level == get_level(T, "CORE")
           c == IF attr_contains(hw.attrs, attr) THEN 1 ELSE 0
           changed == \E level \in above_level + 1 .. core_level :
                        hw.ids[level] # previous_id[level]
       IN IF above_level >= 0 /\ hw.ids[above_level] # previous_id[above_level]
            THEN ncores_with_attr_loop(T, attr, above_level, i + 1, hw.ids, c,
                                       Max2(current, current_max))
          ELSE ncores_with_attr_loop(T, attr, above_level, i + 1, hw.ids,
                                     IF changed THEN current + c ELSE current,
                                     current_max)

get_ncores_with_attr_per(T, attr, above_level) ==
  ncores_with_attr_loop(T, attr, above_level, 0, Fill(T.depth, UNKNOWN_ID), 0, 0)

(* checks of one item at the core level; returns the warning, if any, and  *)
(* the attribute kinds in use                                              *)
core_item_check(T, item, absolute, uct0, uce0) ==
  LET n == Len(item.attr)
      uct1 == uct0 \/ \E j \in 1 .. n : is_core_type_valid(item.attr[j])
      uce1 == uce0 \/ \E j \in 1 .. n : is_core_eff_valid(item.attr[j])
      nonhybrid == (uce1 \/ uct1) /\ ~ __kmp_is_hybrid_cpu
      uct == uct1 /\ ~ nonhybrid
      uce == uce1 /\ ~ nonhybrid
      level_above == get_level(T, "CORE") - 1
      res(w, rej, always) == [warn |-> w, reject |-> rej, always |-> always,
                              uct |-> uct, uce |-> uce]
      ignoring == IF nonhybrid /\ n = 1 THEN "AffHWSubsetIgnoringAttr" ELSE ""
  IN IF nonhybrid /\ n # 1 THEN res("AffHWSubsetAttrsNonHybrid", TRUE, FALSE)
     ELSE IF uct /\ uce THEN res("AffHWSubsetIncompat", TRUE, FALSE)
     ELSE IF uce /\ \E j \in 1 .. n :
                      /\ is_core_eff_valid(item.attr[j])
                      /\ \/ item.attr[j].core_eff < 0
                         \/ item.attr[j].core_eff >= T.num_core_efficiencies
       THEN res("AffHWSubsetAttrInvalid", TRUE, TRUE)
     ELSE IF /\ (uct \/ uce) /\ ~ absolute /\ level_above >= 0
             /\ \E j \in 1 .. n :
                  LET max_count == get_ncores_with_attr_per(T, item.attr[j], level_above)
                  IN \/ max_count <= 0
                     \/ (item.num[j] # USE_ALL /\ item.num[j] + item.offset[j] > max_count)
       THEN res("AffHWSubsetManyGeneric", TRUE, FALSE)
     ELSE IF (uct \/ uce) /\ n > 1 /\ \E j \in 1 .. n : ~ item.attr[j].valid
       THEN res("AffHWSubsetIncompat", TRUE, FALSE)
     ELSE IF (uct \/ uce) /\ n > 1
             /\ \E j \in 1 .. n : \E k \in 1 .. j - 1 : item.attr[k] = item.attr[j]
       THEN res("AffHWSubsetAttrRepeat", TRUE, FALSE)
     ELSE res(ignoring, FALSE, FALSE)

(* the validation loop over the sorted items *)
RECURSIVE subset_validate(_, _, _, _, _)
subset_validate(T, sub, i, specified, acc) ==
  IF i > Len(sub.items) THEN acc
  ELSE LET item == sub.items[i]
           equivalent_type == T.equivalent[item.type]
           level == get_level(T, item.type)
           max_count == get_ratio(T, level)
           num == item.num[1]
           offset == item.offset[1]
           acc1 == [acc EXCEPT !.levels = Append(@, level),
                               !.types = Append(@, equivalent_type)]
           reject(w) == [acc1 EXCEPT !.ok = FALSE, !.warn = acc.warn \union {w}]
       IN With(core_item_check(T, item, sub.absolute, acc.uct, acc.uce),
               LAMBDA core :
          IF equivalent_type = KMP_HW_UNKNOWN
            THEN [acc EXCEPT !.ok = FALSE,
                             !.warn = @ \union {"AffHWSubsetNotExistGeneric"}]
          ELSE IF equivalent_type \in specified
            THEN reject("AffHWSubsetEqvLayers")
          ELSE IF ~ sub.absolute /\ (max_count < 0 \/
                    (num # USE_ALL /\ num + offset > max_count))
            THEN reject("AffHWSubsetManyGeneric")
          ELSE IF level = get_level(T, "CORE")
            THEN IF core.reject
                   THEN [acc1 EXCEPT !.ok = FALSE,
                           !.warn = IF core.always THEN acc.warn ELSE @ \union {core.warn},
                           !.printed = IF core.always THEN @ \union {core.warn} ELSE @]
                   ELSE subset_validate(T, sub, i + 1,
                          specified \union {equivalent_type},
                          [acc1 EXCEPT !.uct = core.uct, !.uce = core.uce,
                             !.warn = IF core.warn = "" THEN @ ELSE @ \union {core.warn}])
          ELSE subset_validate(T, sub, i + 1, specified \union {equivalent_type}, acc1))

KMP_HW_MAX_NUM_CORE_EFFS == 8

get_core_type_index(t) ==
  CASE t.attrs.core_type = "ATOM" -> 1
    [] t.attrs.core_type = "CORE" -> 2
    [] OTHER -> 0

get_core_eff_index(t) == t.attrs.core_eff

is_targeted(is_absolute, topology_levels, level) ==
  is_absolute => \E i \in 1 .. Len(topology_levels) : topology_levels[i] = level

(* the counters after hw_thread has been seen *)
subset_counters(T, v, c, hw_thread) ==
  LET depth == T.depth
      core_level == get_level(T, "CORE")
      targeted(j) == is_targeted(v.absolute, v.levels, j)
      changed == {l \in 0 .. depth - 1 : hw_thread.sub_ids[l] # c.prev_sub_ids[l]}
      level == CHOOSE l \in changed : \A m \in changed : l <= m
      tj == {j \in level .. depth - 1 : targeted(j)}
      first == CHOOSE j \in tj : \A m \in tj : j <= m
      bump(old, j) == IF j = first THEN old + 1 ELSE 0
      ei == get_core_eff_index(hw_thread)
      ti == get_core_type_index(hw_thread)
  IN IF ~ (v.absolute \/ v.uce \/ v.uct) THEN c
     ELSE IF changed = {} \/ tj = {} THEN [c EXCEPT !.prev_sub_ids = hw_thread.sub_ids]
     ELSE [prev_sub_ids |-> hw_thread.sub_ids,
           abs_sub_ids |-> [j \in 0 .. depth - 1 |->
                              IF j \in tj THEN bump(c.abs_sub_ids[j], j)
                              ELSE c.abs_sub_ids[j]],
           core_eff_sub_ids |->
             IF core_level \in tj /\ v.uce
               THEN [c.core_eff_sub_ids EXCEPT ![ei] = bump(@, core_level)]
               ELSE c.core_eff_sub_ids,
           core_type_sub_ids |->
             IF core_level \in tj /\ v.uct
               THEN [c.core_type_sub_ids EXCEPT ![ti] = bump(@, core_level)]
               ELSE c.core_type_sub_ids]

(* variant: the offset of the item is ignored *)
out_of_range_no_offset(sub_id, num, offset) == num # USE_ALL /\ sub_id >= num

out_of_range(sub_id, num, offset) ==
  sub_id < offset \/ (num # USE_ALL /\ sub_id >= offset + num)

(* TRUE, FALSE or "next": the verdict of one item on hw_thread *)
item_filters(T, v, c, hw_thread, k) ==
  LET item == v.items[k]
      level == v.levels[k]
      core_level == get_level(T, "CORE")
      matches(a) == \/ v.uct /\ item.attr[a].core_type = hw_thread.attrs.core_type
                    \/ v.uce /\ item.attr[a].core_eff = hw_thread.attrs.core_eff
      found == {a \in 1 .. Len(item.attr) : matches(a)}
      attr_idx == CHOOSE a \in found : \A b \in found : a <= b
      attr_sub_id == IF v.uct THEN c.core_type_sub_ids[get_core_type_index(hw_thread)]
                     ELSE c.core_eff_sub_ids[get_core_eff_index(hw_thread)]
      sub_id == IF v.absolute THEN c.abs_sub_ids[level] ELSE hw_thread.sub_ids[level]
  IN IF level = -1 THEN FALSE
     ELSE IF (v.uce \/ v.uct) /\ level = core_level
       THEN \/ found = {}
            \/ out_of_range(attr_sub_id, item.num[attr_idx], item.offset[attr_idx])
     ELSE \/ hw_thread.ids[level] = UNKNOWN_ID
          \/ out_of_range(sub_id, item.num[1], item.offset[1])

should_be_filtered(T, v, c, hw_thread) ==
  \E k \in 1 .. Len(v.items) : item_filters(T, v, c, hw_thread, k)

RECURSIVE subset_walk(_, _, _, _, _)
subset_walk(T, v, i, c, filtered_mask) ==
  IF i >= T.num_hw_threads THEN filtered_mask
  ELSE With(subset_counters(T, v, c, T.hw_threads[i]), LAMBDA c1 :
       With(IF should_be_filtered(T, v, c1, T.hw_threads[i])
              THEN filtered_mask \ {T.hw_threads[i].os_id} ELSE filtered_mask,
            LAMBDA m1 :
         Then(<<c1, m1>>, subset_walk(T, v, i + 1, c1, m1))))

(* the request after sort, canonicalize and validation, and the mask the   *)
(* walk over the threads leaves                                            *)
subset_plan(T, sub, fullMask) ==
  With(hw_subset_canonicalize(T, [sub EXCEPT !.items = hw_subset_sort(T, sub.items)]),
       LAMBDA sorted :
  With(subset_validate(T, sorted, 1, {},
         [ok |-> TRUE, warn |-> {}, printed |-> {}, uct |-> FALSE,
          uce |-> FALSE, levels |-> <<>>, types |-> <<>>]), LAMBDA v0 :
  With([sorted EXCEPT !.items =
          [k \in 1 .. Len(sorted.items) |->
             IF k <= Len(v0.types)
               THEN [sorted.items[k] EXCEPT !.type = v0.types[k]]
               ELSE sorted.items[k]]], LAMBDA retyped :
  With(IF v0.ok
         THEN subset_walk(T,
                [absolute |-> sorted.absolute, uct |-> v0.uct, uce |-> v0.uce,
                 levels |-> v0.levels, items |-> retyped.items],
                0,
                [prev_sub_ids |-> Fill(T.depth, -1),
                 abs_sub_ids |-> Fill(T.depth, -1),
                 core_eff_sub_ids |->
                   [e \in -1 .. KMP_HW_MAX_NUM_CORE_EFFS - 1 |-> -1],
                 core_type_sub_ids |-> [t \in 0 .. 2 |-> -1]],
                fullMask)
         ELSE fullMask, LAMBDA filtered_mask :
    [ok |-> v0.ok, warn |-> v0.warn, printed |-> v0.printed, sub |-> retyped,
     filtered_mask |-> filtered_mask,
     num_filtered |-> Cardinality({i \in 0 .. T.num_hw_threads - 1 :
                                     T.hw_threads[i].os_id \notin filtered_mask})]))))

(* filter_hw_subset on the state S with the request sub; result: the new   *)
(* state, the request as the filter leaves it, the return value and the    *)
(* messages printed                                                        *)
filter_hw_subset(S, sub, aff) ==
  With(subset_plan(S.T, sub, S.fullMask), LAMBDA plan :
    LET T == S.T
        said(ws) == UNION {KMP_AFF_WARNING(aff, w) : w \in ws} \union plan.printed
        res(S1, sub1, ret, ws) == [S |-> S1, sub |-> sub1, ret |-> ret, warn |-> said(ws)]
    IN IF ~ sub.requested THEN res(S, sub, FALSE, {})
       ELSE IF ~ plan.ok THEN res(S, plan.sub, FALSE, plan.warn)
       ELSE IF plan.num_filtered = T.num_hw_threads
         THEN res(S, plan.sub, FALSE, plan.warn \union {"AffHWSubsetAllFiltered"})
       ELSE res(restrict_to_mask(S, plan.filtered_mask), plan.sub, TRUE, plan.warn))

(***************************************************************************)
(* Granularity and the OS-id mask table                                    *)
(***************************************************************************)
get_type(T, level) == T.types[level]

(* the granularity levels counted from the innermost layer up to gran_type *)
RECURSIVE gran_levels_from(_, _, _)
gran_levels_from(T, gran_type, i) ==
  IF i >= 0 /\ get_type(T, i) # gran_type
    THEN 1 + gran_levels_from(T, gran_type, i - 1) ELSE 0

first_known_gran(T) ==
  IF get_equivalent_type(T, "CORE") # KMP_HW_UNKNOWN THEN "CORE"
  ELSE IF get_equivalent_type(T, "THREAD") # KMP_HW_UNKNOWN THEN "THREAD"
  ELSE IF get_equivalent_type(T, "SOCKET") # KMP_HW_UNKNOWN THEN "SOCKET"
  ELSE KMP_HW_UNKNOWN

(* set_granularity: the settings afterwards, the warnings, the assertion *)
set_granularity(T, affinity) ==
  LET attr_gran == affinity.core_attr_gran.valid
      flag_gran == affinity.flags.core_types_gran \/ affinity.flags.core_effs_gran
      reset == ~ __kmp_is_hybrid_cpu /\ (attr_gran \/ flag_gran)
      w1 == IF ~ reset THEN {}
            ELSE IF attr_gran \/ affinity.flags.omp_places
              THEN KMP_AFF_WARNING(affinity, "AffIgnoringNonHybrid")
            ELSE KMP_AFF_WARNING(affinity, "AffGranularityBad")
      a1 == IF reset
              THEN [affinity EXCEPT !.gran = "CORE", !.gran_levels = -1,
                      !.core_attr_gran = NoAttrs,
                      !.flags.core_types_gran = FALSE,
                      !.flags.core_effs_gran = FALSE]
              ELSE affinity
      requested == get_equivalent_type(T, a1.gran)
      bad == requested = KMP_HW_UNKNOWN
      gran_type1 == IF bad THEN first_known_gran(T) ELSE requested
      w2 == IF bad THEN KMP_AFF_WARNING(a1, "AffGranularityBad") ELSE {}
      a2 == IF bad THEN [a1 EXCEPT !.gran = gran_type1] ELSE a1
      gran_depth == get_level(T, gran_type1)
      proc_group_depth == get_level(T, "PROC_GROUP")
      coarse == /\ machine.windows /\ machine.num_proc_groups > 1
                /\ gran_depth >= 0 /\ proc_group_depth >= 0
                /\ gran_depth < proc_group_depth
      w3 == IF coarse THEN KMP_AFF_WARNING(a2, "AffGranTooCoarseProcGroup") ELSE {}
      gran_type == IF coarse THEN "PROC_GROUP" ELSE gran_type1
      a3 == IF coarse THEN [a2 EXCEPT !.gran = "PROC_GROUP"] ELSE a2
  IN IF a1.gran_levels < 0
       THEN [affinity |-> [a3 EXCEPT !.gran_levels =
                             gran_levels_from(T, gran_type, T.depth - 1)],
             warn |-> w1 \union w2 \union w3,
             ok |-> gran_type1 # KMP_HW_UNKNOWN]
       ELSE [affinity |-> a1, warn |-> w1, ok |-> TRUE]

(* variant: the ids alone decide *)
is_close_ids(T, hwt1, hwt2, stgs) ==
  LET hw_level == stgs.gran_levels
      t1 == T.hw_threads[hwt1]
      t2 == T.hw_threads[hwt2]
  IN IF hw_level >= T.depth THEN TRUE
     ELSE \A i \in 0 .. T.depth - hw_level - 1 : t1.ids[i] = t2.ids[i]

is_close(T, hwt1, hwt2, stgs) ==
  LET hw_level == stgs.gran_levels
      t1 == T.hw_threads[hwt1]
      t2 == T.hw_threads[hwt2]
  IN IF hw_level >= T.depth THEN TRUE
     ELSE IF stgs.flags.core_types_gran THEN t1.attrs.core_type = t2.attrs.core_type
     ELSE IF stgs.flags.core_effs_gran THEN t1.attrs.core_eff = t2.attrs.core_eff
     ELSE \A i \in 0 .. T.depth - hw_level - 1 : t1.ids[i] = t2.ids[i]

(* one group of the table: its leader, its members, its mask *)
Group(leader, members, sum) == [leader |-> leader, members |-> members, sum |-> sum]

(* the groups formed over the indices E that find_next visits, from E[k] on *)
RECURSIVE form_groups(_, _, _, _, _, _)
form_groups(T, affinity, E, k, cur, done) ==
  IF k > Len(E) THEN Append(done, cur)
  ELSE LET i == E[k]
           os == T.hw_threads[i].os_id
           grown == Group(cur.leader, Append(cur.members, i), cur.sum \union {os})
       IN IF is_close(T, cur.leader, i, affinity)
            THEN Then(grown, form_groups(T, affinity, E, k + 1, grown, done))
            ELSE Then(done, form_groups(T, affinity, E, k + 1,
                                        Group(i, <<i>>, {os}), Append(done, cur)))

max_os_id(T) ==
  LET ids == {T.hw_threads[i].os_id : i \in 0 .. T.num_hw_threads - 1} \union {0}
  IN CHOOSE m \in ids : \A o \in ids : o <= m

(* __kmp_create_os_id_masks with the threads find_next visits given by     *)
(* their indices E, in increasing order                                    *)
__kmp_create_os_id_masks(S, affinity, E) ==
  IF Len(E) = 0
    THEN [S |-> S, affinity |-> affinity, numUnique |-> 0, warn |-> {}, made |-> FALSE]
  ELSE
  With(form_groups(S.T, affinity, E, 2,
                   Group(E[1], <<E[1]>>, {S.T.hw_threads[E[1]].os_id}), <<>>),
       LAMBDA groups :
    LET T == S.T
        maxOsId == max_os_id(T)
        group_of(i) == CHOOSE g \in 1 .. Len(groups) :
                         \E m \in 1 .. Len(groups[g].members) : groups[g].members[m] = i
        visited == {E[k] : k \in 1 .. Len(E)}
        table == [o \in 0 .. maxOsId |->
                    IF \E i \in visited : T.hw_threads[i].os_id = o
                      THEN groups[group_of(CHOOSE i \in visited :
                                             T.hw_threads[i].os_id = o)].sum
                      ELSE {}]
        T1 == [T EXCEPT !.hw_threads =
                 [i \in 0 .. T.num_hw_threads - 1 |->
                    IF i \in visited
                      THEN [T.hw_threads[i] EXCEPT !.leader = (groups[group_of(i)].leader = i)]
                      ELSE T.hw_threads[i]]]
        full_mask == UNION {groups[g].sum : g \in 1 .. Len(groups)}
        migrate == IF affinity.gran_levels >= T.depth
                     THEN KMP_AFF_WARNING(affinity, "AffThreadsMayMigrate") ELSE {}
    IN [S |-> full_mask_restrict_to_mask([S EXCEPT !.T = T1], full_mask),
        affinity |-> [affinity EXCEPT !.num_os_id_masks = maxOsId + 1,
                                      !.os_id_masks = table],
        numUnique |-> Len(groups), warn |-> migrate, made |-> TRUE])

Indices(T, keep(_)) ==
  SelectSeq([i \in 1 .. T.num_hw_threads |-> i - 1], keep)

(* the three attempts of __kmp_aux_affinity_initialize at the table *)
create_os_id_masks_attempts(S, affinity) ==
  With(__kmp_create_os_id_masks(S, affinity,
         Indices(S.T, LAMBDA i : attr_contains(S.T.hw_threads[i].attrs,
                                               affinity.core_attr_gran))),
       LAMBDA by_attr :
    LET T == S.T
        depth == T.depth
        gran == affinity.gran_levels
        gran_level == depth - 1 - gran
        w_attr == IF affinity.core_attr_gran.valid /\ ~ by_attr.made
                    THEN KMP_AFF_WARNING(affinity, "AffIgnoringNotAvailable") ELSE {}
        with(r) == [r EXCEPT !.warn = @ \union w_attr]
        plain == with(__kmp_create_os_id_masks(S, affinity,
                                               Indices(T, LAMBDA i : TRUE)))
    IN IF affinity.core_attr_gran.valid /\ by_attr.made THEN by_attr
       ELSE IF gran >= 0 /\ gran_level >= 0 /\ gran_level < depth
         THEN With(__kmp_create_os_id_masks(S, affinity,
                     Indices(T, LAMBDA i :
                       gran >= depth \/ T.hw_threads[i].ids[gran_level] # UNKNOWN_ID)),
                   LAMBDA by_gran : IF by_gran.made THEN with(by_gran) ELSE plain)
       ELSE plain)

(***************************************************************************)
(* The proclist parser.  A list is the sequence of its characters; the     *)
(* terminating NUL is the empty string.                                    *)
(***************************************************************************)
Digits == <<"0", "1", "2", "3", "4", "5", "6", "7", "8", "9">>

IsDigit(c) == \E d \in 1 .. 10 : Digits[d] = c

DigitVal(c) == (CHOOSE d \in 1 .. 10 : Digits[d] = c) - 1

CharAt(str, p) == IF p <= Len(str) THEN str[p] ELSE ""

RECURSIVE SKIP_WS(_, _)
SKIP_WS(str, p) ==
  IF CharAt(str, p) \in {" ", "\t"} THEN SKIP_WS(str, p + 1) ELSE p

RECURSIVE SKIP_DIGITS(_, _)
SKIP_DIGITS(str, p) == IF IsDigit(CharAt(str, p)) THEN SKIP_DIGITS(str, p + 1) ELSE p

(* the value of the digits str[from .. to-1] *)
RECURSIVE __kmp_str_to_int(_, _, _)
__kmp_str_to_int(str, from, to) ==
  IF from >= to THEN 0
  ELSE __kmp_str_to_int(str, from, to - 1) * 10 + DigitVal(str[to - 1])

valid_os_id(affinity, osId) ==
  /\ osId <= affinity.num_os_id_masks - 1
  /\ osId \in affinity.os_id_masks[osId]

(* ADD_MASK_OSID on the parser state acc *)
ADD_MASK_OSID(affinity, acc, osId) ==
  IF valid_os_id(affinity, osId)
    THEN [acc EXCEPT !.masks = Append(@, affinity.os_id_masks[osId])]
    ELSE [acc EXCEPT !.warn = @ \union KMP_AFF_WARNING(affinity, "AffIgnoreInvalidProcID")]

(* the members of a braces set after the first, from position next on;     *)
(* result: position after the closing brace, the union, the set size       *)
RECURSIVE proclist_set_rest(_, _, _, _)
proclist_set_rest(affinity, str, next0, st) ==
  With(SKIP_WS(str, next0), LAMBDA next1 :
  With(SKIP_WS(str, IF CharAt(str, next1) = "," THEN next1 + 1 ELSE next1),
       LAMBDA scan :
  With(SKIP_DIGITS(str, scan), LAMBDA next3 :
  With(__kmp_str_to_int(str, scan, next3), LAMBDA num :
    LET ok == valid_os_id(affinity, num)
        st1 == [st EXCEPT
                  !.sumMask = IF ok THEN @ \union affinity.os_id_masks[num] ELSE @,
                  !.setSize = IF ok THEN @ + 1 ELSE @,
                  !.warn = IF ok THEN @
                           ELSE @ \union KMP_AFF_WARNING(affinity, "AffIgnoreInvalidProcID")]
    IN IF CharAt(str, next1) = "}" THEN [st EXCEPT !.next = next1 + 1]
       ELSE IF ~ IsDigit(CharAt(str, scan)) THEN [st EXCEPT !.ok = FALSE]
       ELSE Then(st1, proclist_set_rest(affinity, str, next3, st1))))))

(* the ids start, start + stride, ... of a range *)
(* variant: the stride only gives the direction *)
RECURSIVE proclist_range_unit(_, _, _, _, _)
proclist_range_unit(affinity, acc, start, end, stride) ==
  LET acc1 == ADD_MASK_OSID(affinity, acc, start)
      step == IF stride > 0 THEN 1 ELSE -1
  IN IF (stride > 0 /\ start + step > end) \/ (stride <= 0 /\ start + step < end)
       THEN acc1
       ELSE Then(acc1, proclist_range_unit(affinity, acc1, start + step, end, stride))

RECURSIVE proclist_range(_, _, _, _, _)
proclist_range(affinity, acc, start, end, stride) ==
  LET acc1 == ADD_MASK_OSID(affinity, acc, start)
  IN IF stride > 0
       THEN IF end - start < stride \/ start + stride > end THEN acc1
            ELSE Then(acc1, proclist_range(affinity, acc1, start + stride, end, stride))
       ELSE IF start + stride < end THEN acc1
            ELSE Then(acc1, proclist_range(affinity, acc1, start + stride, end, stride))

RECURSIVE proclist_items(_, _, _, _)
proclist_items(affinity, str, scan0, acc) ==
  With(SKIP_WS(str, scan0), LAMBDA scan :
  (* a braces set *)
  With(SKIP_WS(str, scan + 1), LAMBDA first :
  With(SKIP_DIGITS(str, first), LAMBDA after_first :
  With(__kmp_str_to_int(str, first, after_first), LAMBDA num :
  With(proclist_set_rest(affinity, str, after_first,
         [next |-> after_first, ok |-> TRUE,
          sumMask |-> IF valid_os_id(affinity, num)
                        THEN affinity.os_id_masks[num] ELSE {},
          setSize |-> IF valid_os_id(affinity, num) THEN 1 ELSE 0,
          warn |-> IF valid_os_id(affinity, num) THEN acc.warn
                   ELSE acc.warn \union
                        KMP_AFF_WARNING(affinity, "AffIgnoreInvalidProcID")]),
       LAMBDA st :
  With([acc EXCEPT !.warn = st.warn,
                   !.masks = IF st.setSize > 0 THEN Append(@, st.sumMask) ELSE @],
       LAMBDA acc_set :
  (* an id or a range *)
  With(SKIP_DIGITS(str, scan), LAMBDA after_start :
  With(__kmp_str_to_int(str, scan, after_start), LAMBDA start :
  With(SKIP_WS(str, after_start), LAMBDA next1 :
  With(SKIP_WS(str, next1 + 1), LAMBDA scan_end :
  With(SKIP_DIGITS(str, scan_end), LAMBDA after_end :
  With(__kmp_str_to_int(str, scan_end, after_end), LAMBDA end :
  With(SKIP_WS(str, after_end), LAMBDA next2 :
  With(SKIP_WS(str, next2 + 1), LAMBDA next3 :
  With(IF CharAt(str, next3) = "-" THEN SKIP_WS(str, next3 + 1) ELSE next3,
       LAMBDA scan_stride :
  With(SKIP_DIGITS(str, scan_stride), LAMBDA after_stride :
  With(IF CharAt(str, next2) # ":" THEN 1
       ELSE IF CharAt(str, next3) = "-"
         THEN 0 - __kmp_str_to_int(str, scan_stride, after_stride)
       ELSE __kmp_str_to_int(str, scan_stride, after_stride), LAMBDA stride :
    LET skip_comma(p) == IF CharAt(str, p) = "," THEN p + 1 ELSE p
        bad == [acc EXCEPT !.ok = FALSE]
        has_stride == CharAt(str, next2) = ":"
        next4 == IF has_stride THEN after_stride ELSE next2
        range_ok == /\ IsDigit(CharAt(str, scan_end))
                    /\ has_stride => IsDigit(CharAt(str, scan_stride))
                    /\ stride # 0
                    /\ IF stride > 0 THEN start <= end ELSE start >= end
                    /\ IF stride > 0 THEN (end - start) \div stride <= 65536
                       ELSE (start - end) \div (0 - stride) <= 65536
    IN IF ~ acc.ok \/ CharAt(str, scan) = "" THEN acc
       ELSE IF CharAt(str, scan) = "{"
         THEN IF ~ IsDigit(CharAt(str, first)) \/ ~ st.ok THEN bad
              ELSE Then(acc_set, proclist_items(affinity, str,
                                   skip_comma(SKIP_WS(str, st.next)), acc_set))
       ELSE IF ~ IsDigit(CharAt(str, scan)) THEN bad
       ELSE IF CharAt(str, next1) # "-"
         THEN With(ADD_MASK_OSID(affinity, acc, start), LAMBDA acc1 :
                Then(acc1, proclist_items(affinity, str, skip_comma(next1), acc1)))
       ELSE IF ~ range_ok THEN bad
       ELSE With(proclist_range(affinity, acc, start, end, stride), LAMBDA acc1 :
              Then(acc1, proclist_items(affinity, str,
                           skip_comma(SKIP_WS(str, next4)), acc1)))
  )))))))))))))))))

(* the settings with masks and num_masks set from the list; the warnings;  *)
(* whether the assertions on the form of the list passed                   *)
__kmp_affinity_process_proclist(affinity) ==
  With(proclist_items(affinity, affinity.proclist, 1,
                      [masks |-> <<>>, warn |-> {}, ok |-> TRUE]), LAMBDA r :
    [affinity |-> [affinity EXCEPT !.masks = r.masks, !.num_masks = Len(r.masks)],
     warn |-> r.warn, ok |-> r.ok])

(***************************************************************************)
(* The OMP_PLACES parser                                                   *)
(***************************************************************************)
(* the parser state: position, place under construction, its size, the     *)
(* places added so far, warnings, and whether the form assertions passed   *)
PlaceState(scan) ==
  [scan |-> scan, tempMask |-> {}, setSize |-> 0, masks |-> <<>>, warn |-> {},
   ok |-> TRUE]

invalid_proc_id(affinity, st) ==
  [st EXCEPT !.warn = @ \union KMP_AFF_WARNING(affinity, "AffIgnoreInvalidProcID")]

(* start, start + stride, ...: count ids, stopping at the first invalid *)
RECURSIVE subplace_run(_, _, _, _, _)
subplace_run(affinity, st, start, count, stride) ==
  IF count <= 0 THEN st
  ELSE IF start < 0 \/ ~ valid_os_id(affinity, start) THEN invalid_proc_id(affinity, st)
  ELSE LET st1 == [st EXCEPT !.tempMask = @ \union affinity.os_id_masks[start],
                             !.setSize = @ + 1]
       IN Then(st1, subplace_run(affinity, st1, start + stride, count - 1, stride))

(* the signs before a stride: position after them and the sign *)
RECURSIVE read_sign(_, _, _)
read_sign(str, scan0, sign) ==
  LET scan == SKIP_WS(str, scan0)
  IN IF CharAt(str, scan) = "+" THEN read_sign(str, scan + 1, sign)
     ELSE IF CharAt(str, scan) = "-" THEN read_sign(str, scan + 1, 0 - sign)
     ELSE [scan |-> scan, sign |-> sign]

RECURSIVE __kmp_process_subplace_list(_, _, _)
__kmp_process_subplace_list(affinity, str, st) ==
  With(SKIP_WS(str, st.scan), LAMBDA scan0 :
  With(SKIP_DIGITS(str, scan0), LAMBDA next0 :
  With(SKIP_WS(str, next0), LAMBDA scan1 :
  With(SKIP_WS(str, scan1 + 1), LAMBDA scan2 :
  With(SKIP_DIGITS(str, scan2), LAMBDA next2 :
  With(SKIP_WS(str, next2), LAMBDA scan3 :
  With(read_sign(str, scan3 + 1, 1), LAMBDA sg :
  With(SKIP_WS(str, sg.scan), LAMBDA scan4 :
  With(SKIP_DIGITS(str, scan4), LAMBDA next4 :
  With(SKIP_WS(str, next4), LAMBDA scan5 :
    LET bad == [st EXCEPT !.ok = FALSE]
        start == __kmp_str_to_int(str, scan0, next0)
        count == __kmp_str_to_int(str, scan2, next2)
        stride == sg.sign * __kmp_str_to_int(str, scan4, next4)
        ends(p) == CharAt(str, p) \in {"}", ","}
        follow(st1, p) ==
          IF CharAt(str, p) = "}" THEN [st1 EXCEPT !.scan = p]
          ELSE Then(st1, __kmp_process_subplace_list(affinity, str, [st1 EXCEPT !.scan = p + 1]))
    IN IF ~ IsDigit(CharAt(str, scan0)) THEN bad
       ELSE IF ends(scan1) THEN follow(subplace_run(affinity, st, start, 1, 1), scan1)
       ELSE IF CharAt(str, scan1) # ":" \/ ~ IsDigit(CharAt(str, scan2)) THEN bad
       ELSE IF ends(scan3) THEN follow(subplace_run(affinity, st, start, count, 1), scan3)
       ELSE IF CharAt(str, scan3) # ":" \/ ~ IsDigit(CharAt(str, scan4)) THEN bad
       ELSE IF ends(scan5) THEN follow(subplace_run(affinity, st, start, count, stride), scan5)
       ELSE bad))))))))))

RECURSIVE __kmp_process_place(_, _, _, _)
__kmp_process_place(affinity, fullMask, str, st) ==
  With(SKIP_WS(str, st.scan), LAMBDA scan :
  With(SKIP_DIGITS(str, scan), LAMBDA next :
    IF CharAt(str, scan) = "{"
      THEN With(__kmp_process_subplace_list(affinity, str,
                                            [st EXCEPT !.scan = scan + 1]),
                LAMBDA sub :
             IF sub.ok /\ CharAt(str, sub.scan) = "}"
               THEN [sub EXCEPT !.scan = @ + 1] ELSE [sub EXCEPT !.ok = FALSE])
    ELSE IF CharAt(str, scan) = "!"
      THEN [__kmp_process_place(affinity, fullMask, str,
                                [st EXCEPT !.scan = scan + 1])
              EXCEPT !.tempMask = fullMask \ @]
    ELSE IF IsDigit(CharAt(str, scan))
      THEN [subplace_run(affinity, st, __kmp_str_to_int(str, scan, next), 1, 1)
              EXCEPT !.scan = next]
    ELSE [st EXCEPT !.ok = FALSE]))

(* the place shifted by stride *)
(* variant: no position is dropped *)
shifted_place_unchecked(affinity, fullMask, previousMask, stride) ==
  {j + stride : j \in previousMask}

shifted_place(affinity, fullMask, previousMask, stride) ==
  {j + stride : j \in {c \in previousMask :
     ~ (\/ c + stride > affinity.num_os_id_masks - 1
        \/ c + stride < 0
        \/ c \notin fullMask
        \/ c + stride \notin affinity.os_id_masks[c + stride])}}

(* the places of initial_place : count : stride *)
RECURSIVE place_run(_, _, _, _, _, _)
place_run(affinity, fullMask, st, i, count, stride) ==
  IF i >= count \/ st.setSize = 0 THEN st
  ELSE With(shifted_place(affinity, fullMask, st.tempMask, stride), LAMBDA next :
       With([st EXCEPT
               !.masks = Append(@, st.tempMask),
               !.tempMask = next,
               !.setSize = Cardinality(next),
               !.warn = IF i < count - 1 /\ Cardinality(next) < Cardinality(st.tempMask)
                          THEN @ \union KMP_AFF_WARNING(affinity, "AffIgnoreInvalidProcID")
                          ELSE @], LAMBDA st1 :
         Then(st1, place_run(affinity, fullMask, st1, i + 1, count, stride))))

RECURSIVE placelist_places(_, _, _, _)
placelist_places(affinity, fullMask, str, st0) ==
  With(__kmp_process_place(affinity, fullMask, str, st0), LAMBDA st :
  With(SKIP_WS(str, st.scan), LAMBDA scan :
  With(SKIP_WS(str, scan + 1), LAMBDA scan1 :
  With(SKIP_DIGITS(str, scan1), LAMBDA next1 :
  With(SKIP_WS(str, next1), LAMBDA scan2 :
  With(read_sign(str, scan2 + 1, 1), LAMBDA sg :
  With(SKIP_WS(str, sg.scan), LAMBDA scan3 :
  With(SKIP_DIGITS(str, scan3), LAMBDA next3 :
    LET bad == [st EXCEPT !.ok = FALSE]
        at_end(p) == CharAt(str, p) \in {"", ","}
        cleared(x) == [x EXCEPT !.tempMask = {}, !.setSize = 0]
        plain == cleared([st EXCEPT !.masks = IF st.setSize > 0
                                                THEN Append(@, st.tempMask) ELSE @])
        count == __kmp_str_to_int(str, scan1, next1)
        stride == IF at_end(scan2) THEN 1 ELSE sg.sign * __kmp_str_to_int(str, scan3, next3)
        scan4 == SKIP_WS(str, IF at_end(scan2) THEN scan2 ELSE next3)
        run == cleared(place_run(affinity, fullMask, st, 0, count, stride))
        continue(x, p) ==
          IF CharAt(str, p) = "" THEN x
          ELSE Then(x, placelist_places(affinity, fullMask, str, [x EXCEPT !.scan = p + 1]))
    IN IF ~ st.ok THEN st
       ELSE IF at_end(scan) THEN continue(plain, scan)
       ELSE IF CharAt(str, scan) # ":" \/ ~ IsDigit(CharAt(str, scan1)) THEN bad
       ELSE IF ~ at_end(scan2) /\ (CharAt(str, scan2) # ":" \/ ~ IsDigit(CharAt(str, scan3)))
         THEN bad
       ELSE IF ~ at_end(scan4) THEN bad
       ELSE continue(run, scan4)))))))))

__kmp_affinity_process_placelist(affinity, fullMask) ==
  With(placelist_places(affinity, fullMask, affinity.proclist, PlaceState(1)),
       LAMBDA r :
    [affinity |-> [affinity EXCEPT !.masks = r.masks, !.num_masks = Len(r.masks)],
     warn |-> r.warn, ok |-> r.ok])

(***************************************************************************)
(* Place lists                                                             *)
(***************************************************************************)
(* __kmp_osid_to_hwthread_map; an entry never written is 0 *)
osid_to_hwthread(S, cpu) ==
  LET hit == {i \in 0 .. S.T.num_hw_threads - 1 :
                S.T.hw_threads[i].os_id = cpu /\ cpu \in S.fullMask}
  IN IF hit = {} THEN 0 ELSE CHOOSE i \in hit : \A j \in hit : j <= i

(* ids after the thread hw_thread of the mask has been looked at *)
RECURSIVE topology_info_levels(_, _, _, _)
topology_info_levels(T, hw_thread, ids, level) ==
  IF level >= T.depth THEN ids
  ELSE LET type == get_type(T, level)
           id == hw_thread.sub_ids[level]
       IN IF ids[type] = UNKNOWN_ID \/ ids[type] = id
            THEN topology_info_levels(T, hw_thread, [ids EXCEPT ![type] = id], level + 1)
            ELSE [t \in HwTypes |->
                    IF \E l \in level .. T.depth - 1 : get_type(T, l) = t
                      THEN MULTIPLE_ID ELSE ids[t]]

RECURSIVE topology_info_cpus(_, _, _, _)
topology_info_cpus(S, cpus, k, acc) ==
  IF k > Len(cpus) THEN acc
  ELSE LET hw_thread == S.T.hw_threads[osid_to_hwthread(S, cpus[k])]
           attrs == IF ~ acc.attrs.valid
                      THEN Attrs(hw_thread.attrs.core_type, hw_thread.attrs.core_eff)
                      ELSE [acc.attrs EXCEPT
                              !.core_type = IF @ # hw_thread.attrs.core_type
                                              THEN KMP_HW_CORE_TYPE_UNKNOWN ELSE @,
                              !.core_eff = IF @ # hw_thread.attrs.core_eff
                                             THEN UNKNOWN_CORE_EFF ELSE @]
           acc1 == [os_id |-> cpus[k],
                    ids |-> topology_info_levels(S.T, hw_thread, acc.ids, 0),
                    attrs |-> attrs]
       IN Then(acc1, topology_info_cpus(S, cpus, k + 1, acc1))

__kmp_affinity_get_mask_topology_info(S, mask) ==
  topology_info_cpus(S, SetToSeq(mask), 1,
    [os_id |-> UNKNOWN_ID, ids |-> [t \in HwTypes |-> UNKNOWN_ID], attrs |-> NoAttrs])

(* __kmp_aux_affinity_initialize_other_data: the topology summary of each  *)
(* place                                                                   *)
__kmp_aux_affinity_initialize_other_data(S, affinity) ==
  IF S.T.num_hw_threads = 0 THEN affinity
  ELSE With([i \in 1 .. affinity.num_masks |->
               __kmp_affinity_get_mask_topology_info(S, affinity.masks[i])],
            LAMBDA info :
         [affinity EXCEPT
            !.ids = [i \in 1 .. affinity.num_masks |->
                       [os_id |-> info[i].os_id, ids |-> info[i].ids]],
            !.attrs = [i \in 1 .. affinity.num_masks |-> info[i].attrs]])

(* variant: no place is made *)
__kmp_create_affinity_no_places(S, affinity) ==
  __kmp_aux_affinity_initialize_other_data(S,
    [affinity EXCEPT !.num_masks = 0, !.masks = <<>>])

__kmp_create_affinity_none_places(S, affinity) ==
  __kmp_aux_affinity_initialize_other_data(S,
    [affinity EXCEPT !.num_masks = 1, !.masks = <<S.fullMask>>])

(* the core-level helpers of the balanced policy *)
__kmp_affinity_find_core_level(T, nprocs, bottom_level) ==
  LET levels == {j - 1 : j \in {l \in 1 .. bottom_level :
                    \E i \in 0 .. nprocs - 1 : T.hw_threads[i].ids[l] > 0}} \union {0}
  IN CHOOSE m \in levels : \A l \in levels : l <= m

__kmp_affinity_compute_ncores(T, core_level) == get_count(T, core_level)

__kmp_affinity_find_core(T, proc, core_level) ==
  Cardinality({i \in 0 .. proc - 1 :
                 \E j \in 0 .. core_level :
                   T.hw_threads[i + 1].sub_ids[j] # T.hw_threads[i].sub_ids[j]})

__kmp_affinity_max_proc_per_core(T, bottom_level, core_level) ==
  IF core_level >= bottom_level THEN 1
  ELSE calculate_ratio(T, get_level(T, "THREAD"), core_level)

(* the slot of each processor in procarr: (core, place in the core) *)
procarr_slot(T, i, core_level, maxprocpercore) ==
  LET core == __kmp_affinity_find_core(T, i, core_level)
      first == CHOOSE f \in 0 .. i :
                 /\ __kmp_affinity_find_core(T, f, core_level) = core
                 /\ \A g \in 0 .. f - 1 : __kmp_affinity_find_core(T, g, core_level) # core
  IN core * maxprocpercore + (i - first)

balanced_procarr(S) ==
  With(__kmp_affinity_find_core_level(S.T, S.avail_proc, S.T.depth - 1),
       LAMBDA core_level :
  With(__kmp_affinity_max_proc_per_core(S.T, S.T.depth - 1, core_level),
       LAMBDA maxprocpercore :
  With([i \in 0 .. S.avail_proc - 1 |->
          procarr_slot(S.T, i, core_level, maxprocpercore)], LAMBDA slots :
    LET T == S.T
        ncores == __kmp_affinity_compute_ncores(T, core_level)
        nproc == ncores * maxprocpercore
    IN [nproc |-> nproc,
        procarr |-> [p \in 0 .. nproc - 1 |->
                       IF \E i \in 0 .. S.avail_proc - 1 : slots[i] = p
                         THEN T.hw_threads[CHOOSE i \in 0 .. S.avail_proc - 1 :
                                slots[i] = p /\ \A j \in 0 .. S.avail_proc - 1 :
                                                  slots[j] = p => j <= i].os_id
                         ELSE -1]])))

(***************************************************************************)
(* __kmp_aux_affinity_initialize                                           *)
(***************************************************************************)
(* compact and offset as the policy sets them *)
policy_compact(affinity, depth, G) ==
  CASE affinity.type = "logical" -> 0
    [] affinity.type = "physical" ->
         IF G.nThreadsPerCore > 1 THEN (IF 1 >= depth THEN 0 ELSE 1) ELSE 0
    [] affinity.type = "scatter" ->
         IF affinity.compact >= depth THEN 0 ELSE depth - 1 - affinity.compact
    [] OTHER -> IF affinity.compact >= depth THEN depth - 1 ELSE affinity.compact

policy_offset(affinity, avail_proc, G) ==
  IF affinity.type \in {"logical", "physical"} /\ affinity.offset # 0
    THEN (G.nThreadsPerCore * affinity.offset) % avail_proc
    ELSE affinity.offset

(* variant: a place for every thread, leader or not *)
RECURSIVE place_walk_all(_, _, _, _)
place_walk_all(T, affinity, i, masks) ==
  IF i >= T.num_hw_threads \/ Len(masks) >= affinity.num_masks THEN masks
  ELSE LET src == affinity.os_id_masks[T.hw_threads[i].os_id]
           masks1 == IF src = {} THEN masks ELSE Append(masks, src)
       IN Then(masks1, place_walk_all(T, affinity, i + 1, masks1))

(* the walk over the compact-sorted threads: the places written *)
RECURSIVE place_walk(_, _, _, _)
place_walk(T, affinity, i, masks) ==
  IF i >= T.num_hw_threads \/ Len(masks) >= affinity.num_masks THEN masks
  ELSE LET hw_thread == T.hw_threads[i]
           src == affinity.os_id_masks[hw_thread.os_id]
           masks1 == IF (~ affinity.flags.dups /\ ~ hw_thread.leader) \/ src = {}
                       THEN masks ELSE Append(masks, src)
       IN Then(masks1, place_walk(T, affinity, i + 1, masks1))

(* variant: the threads are left in the order of the places *)
sortTopology_unsorted(S, affinity0, numUnique, num_places, bind) ==
  With([affinity0 EXCEPT
          !.compact = policy_compact(affinity0, S.T.depth, S.G),
          !.offset = policy_offset(affinity0, S.avail_proc, S.G)], LAMBDA affinity1 :
  With(IF affinity1.flags.dups THEN S.avail_proc ELSE numUnique, LAMBDA wanted :
  With(IF bind # "intel" /\ num_places > 0 /\ num_places < wanted
         THEN num_places ELSE wanted, LAMBDA num_masks :
  With([affinity1 EXCEPT !.num_masks = num_masks], LAMBDA affinity2 :
  With(sort_compact(S.T, affinity2.compact), LAMBDA sorted :
  With(place_walk(sorted, affinity2, 0, <<>>), LAMBDA written :
  With(full_mask_restrict_to_mask([S EXCEPT !.T = sorted],
                                  UNION {written[j] : j \in 1 .. Len(written)}),
       LAMBDA S1 :
    [S |-> S1,
     affinity |-> [affinity2 EXCEPT !.masks =
                     [j \in 1 .. num_masks |->
                        IF j <= Len(written) THEN written[j] ELSE {}]],
     written |-> Len(written)])))))))

(* the code after the label sortTopology *)
sortTopology(S, affinity0, numUnique, num_places, bind) ==
  With([affinity0 EXCEPT
          !.compact = policy_compact(affinity0, S.T.depth, S.G),
          !.offset = policy_offset(affinity0, S.avail_proc, S.G)], LAMBDA affinity1 :
  With(IF affinity1.flags.dups THEN S.avail_proc ELSE numUnique, LAMBDA wanted :
  With(IF bind # "intel" /\ num_places > 0 /\ num_places < wanted
         THEN num_places ELSE wanted, LAMBDA num_masks :
  With([affinity1 EXCEPT !.num_masks = num_masks], LAMBDA affinity2 :
  With(sort_compact(S.T, affinity2.compact), LAMBDA sorted :
  With(place_walk(sorted, affinity2, 0, <<>>), LAMBDA written :
  With(full_mask_restrict_to_mask([S EXCEPT !.T = sorted],
                                  UNION {written[j] : j \in 1 .. Len(written)}),
       LAMBDA S1 :
    [S |-> [S1 EXCEPT !.T = sort_ids(S1.T)],
     affinity |-> [affinity2 EXCEPT !.masks =
                     [j \in 1 .. num_masks |->
                        IF j <= Len(written) THEN written[j] ELSE {}]],
     written |-> Len(written)])))))))

(* __kmp_aux_affinity_initialize of the regular settings, the topology     *)
(* being ready; num_places and bind are the place cap and bind_types[0]    *)
__kmp_aux_affinity_initialize(S0, affinity0, num_places, bind) ==
  With(set_granularity(S0.T, affinity0), LAMBDA g :
  With(create_os_id_masks_attempts(S0, g.affinity), LAMBDA m :
  With(IF bind = "intel" THEN __kmp_affinity_process_proclist(m.affinity)
       ELSE __kmp_affinity_process_placelist(m.affinity, m.S.fullMask),
       LAMBDA parsed :
  With(balanced_procarr(m.S), LAMBDA bal :
  With(sortTopology(m.S, m.affinity, m.numUnique, num_places, bind), LAMBDA st :
    LET res(S, affinity, warn, ok, written, parr) ==
          [S |-> S, affinity |-> [affinity EXCEPT !.flags.initialized = TRUE],
           warn |-> warn, ok |-> ok, written |-> written, procarr |-> parr]
        none(S, affinity, warn, ok) ==
          res(S, __kmp_create_affinity_none_places(S, [affinity EXCEPT !.type = "none"]),
              warn, ok, 1, <<>>)
        S == m.S
        depth == S.T.depth
        warn0 == g.warn \union m.warn
        ok0 == g.ok /\ S.ok
        walked(parr) ==
          res(st.S, __kmp_aux_affinity_initialize_other_data(st.S, st.affinity),
              warn0, ok0 /\ st.S.ok, st.written, parr)
    IN IF affinity0.flags.initialized
         THEN [S |-> S0, affinity |-> affinity0, warn |-> {}, ok |-> TRUE,
               written |-> 0, procarr |-> <<>>]
       ELSE IF affinity0.type = "none" THEN none(S0, affinity0, {}, TRUE)
       ELSE IF affinity0.type = "explicit"
         THEN IF parsed.affinity.num_masks = 0
                THEN none(S, parsed.affinity,
                          warn0 \union parsed.warn
                            \union KMP_AFF_WARNING(parsed.affinity, "AffNoValidProcID"),
                          ok0 /\ parsed.ok)
                ELSE res(S, __kmp_aux_affinity_initialize_other_data(S, parsed.affinity),
                         warn0 \union parsed.warn, ok0 /\ parsed.ok,
                         parsed.affinity.num_masks, <<>>)
       ELSE IF affinity0.type = "balanced"
         THEN IF depth <= 1
                THEN none(S, m.affinity,
                          warn0 \union KMP_AFF_WARNING(m.affinity, "AffBalancedNotAvail"), ok0)
              ELSE IF ~ S.T.uniform /\ (bal.nproc < 2 \/ bal.nproc < S.avail_proc)
                THEN none(S, m.affinity,
                          warn0 \union KMP_AFF_WARNING(m.affinity, "AffBalancedNotAvail"), ok0)
              ELSE walked(IF S.T.uniform THEN <<>> ELSE bal.procarr)
       ELSE walked(<<>>))))))

(* __kmp_aux_affinity_initialize of the settings of the hidden helpers:    *)
(* the list is a KMP_AFFINITY list, the place cap does not apply and       *)
(* "balanced" is not available                                             *)
__kmp_aux_affinity_initialize_helpers(S0, affinity0) ==
  IF affinity0.type = "balanced" /\ ~ affinity0.flags.initialized
    THEN With(set_granularity(S0.T, affinity0), LAMBDA g :
         With(create_os_id_masks_attempts(S0, g.affinity), LAMBDA m :
           [S |-> m.S,
            affinity |-> [__kmp_create_affinity_none_places(m.S,
                            [m.affinity EXCEPT !.type = "none"])
                          EXCEPT !.flags.initialized = TRUE],
            warn |-> g.warn \union m.warn
                       \union KMP_AFF_WARNING(m.affinity, "AffBalancedNotAvail"),
            ok |-> g.ok /\ m.S.ok, written |-> 1, procarr |-> <<>>]))
    ELSE __kmp_aux_affinity_initialize(S0, affinity0, 0, "intel")

(***************************************************************************)
(* Machines                                                                *)
(***************************************************************************)
Row(os, ids) == [os_id |-> os, ids |-> Arr(ids), attrs |-> NoAttrs]

HRow(os, ids, t, e) == [os_id |-> os, ids |-> Arr(ids), attrs |-> Attrs(t, e)]

(* a machine of S x C x H packages, cores and threads, OS procs numbered   *)
(* in that order                                                           *)
TreeRows(S, C, H) ==
  [k \in 1 .. S * C * H |->
     Row(k - 1, <<(k - 1) \div (C * H), ((k - 1) \div H) % C, (k - 1) % H>>)]

Mach(name, method, types, rows, masks) ==
  [name |-> name, method |-> method, pinned |-> FALSE, cpuinfo_file |-> FALSE,
   windows |-> FALSE, num_proc_groups |-> 1, hybrid |-> FALSE, mic3 |-> FALSE, types |-> types,
   rows |-> rows, uniform_caches |-> TRUE, caches |-> <<>>, masks |-> masks]

Cache(type, same_as, ids) == [type |-> type, same_as |-> same_as, ids |-> ids]

M_flat ==
  Mach("flat", "flat", <<>>, <<>>, {{0, 1, 2, 3}, {0, 2, 3}, {1}})

M_group ==
  [Mach("group", "group", <<>>, <<>>, {{0, 1, 64, 65}, {0, 1, 64}, {0, 64}, {0}})
     EXCEPT !.windows = TRUE, !.num_proc_groups = 2]

M_cpuinfo ==
  Mach("cpuinfo", "cpuinfo", <<>>, TreeRows(2, 2, 2),
       {0 .. 7, 0 .. 3, {0, 2, 4, 6}, {0, 1, 2, 4}, {3, 5}})

(* records with "physical id" but no "core id" and no "thread id" *)
M_cpuinfo_nocore ==
  Mach("cpuinfo_nocore", "cpuinfo", <<>>,
       <<Row(0, <<0, -1, -1>>), Row(1, <<0, -1, -1>>),
         Row(2, <<1, -1, -1>>), Row(3, <<1, -1, -1>>)>>,
       {0 .. 3, {0, 1}, {2}})

(* "core id" present in some records only, "thread id" in none *)
M_cpuinfo_partial ==
  Mach("cpuinfo_partial", "cpuinfo", <<>>,
       <<Row(0, <<0, 0, -1>>), Row(1, <<0, 0, -1>>),
         Row(2, <<0, 1, -1>>), Row(3, <<0, -1, -1>>)>>,
       {0 .. 3, {0, 3}})

(* two records with the same physical, core and thread id *)
M_cpuinfo_dup ==
  Mach("cpuinfo_dup", "cpuinfo", <<>>,
       <<Row(0, <<0, 0, 0>>), Row(1, <<0, 0, 0>>), Row(2, <<0, 1, 0>>)>>,
       {0 .. 2, {0, 2}})

M_cpuinfo_dup_pinned == [M_cpuinfo_dup EXCEPT !.name = "cpuinfo_dup_pinned", !.pinned = TRUE]

(* one package, three cores with 4, 2 and 2 hardware threads *)
M_cpuinfo_smt422 ==
  Mach("cpuinfo_smt422", "cpuinfo", <<>>,
       <<Row(0, <<0, 0, 0>>), Row(1, <<0, 0, 1>>), Row(2, <<0, 0, 2>>),
         Row(3, <<0, 0, 3>>), Row(4, <<0, 1, 0>>), Row(5, <<0, 1, 1>>),
         Row(6, <<0, 2, 0>>), Row(7, <<0, 2, 1>>)>>,
       {0 .. 7})

(* two packages, eight cores each, two threads per core *)
M_2x8x2 ==
  Mach("2x8x2", "cpuinfo", <<>>, TreeRows(2, 8, 2), {0 .. 31})

(* leaf 0x1F: package / die / core / thread, one die per package *)
M_x2apic_die ==
  Mach("x2apic_die", "x2apicid", <<"SOCKET", "DIE", "CORE", "THREAD">>,
       <<Row(0, <<0, 0, 0, 0>>), Row(1, <<0, 0, 0, 1>>),
         Row(2, <<0, 0, 1, 0>>), Row(3, <<0, 0, 1, 1>>),
         Row(4, <<1, 0, 0, 0>>), Row(5, <<1, 0, 0, 1>>),
         Row(6, <<1, 0, 1, 0>>), Row(7, <<1, 0, 1, 1>>)>>,
       {0 .. 7, {0, 1, 2, 4}, {1, 6}})

(* leaf 0x1F: one package, two dies of one core each, two threads per core *)
M_x2apic_diecore ==
  Mach("x2apic_diecore", "x2apicid", <<"SOCKET", "DIE", "CORE", "THREAD">>,
       <<Row(0, <<0, 0, 0, 0>>), Row(1, <<0, 0, 0, 1>>),
         Row(2, <<0, 1, 0, 0>>), Row(3, <<0, 1, 0, 1>>)>>,
       {0 .. 3, {0, 2, 3}, {1, 2}})

(* caches: L1 and L2 per core, one L3 for each pair of cores *)
M_x2apic_cache ==
  [Mach("x2apic_cache", "x2apicid", <<"SOCKET", "CORE", "THREAD">>,
        <<Row(0, <<0, 0, 0>>), Row(1, <<0, 0, 1>>), Row(2, <<0, 1, 0>>),
          Row(3, <<0, 1, 1>>), Row(4, <<0, 2, 0>>), Row(5, <<0, 2, 1>>),
          Row(6, <<0, 3, 0>>), Row(7, <<0, 3, 1>>)>>,
        {0 .. 7, {0, 1, 4, 5}, {0, 2, 4, 6}})
     EXCEPT !.caches =
       <<Cache("L1", "CORE", <<>>), Cache("L2", "CORE", <<>>),
         Cache("L3", KMP_HW_UNKNOWN, <<0, 0, 0, 0, 4, 4, 4, 4>>)>>]

(* hybrid: two performance cores with two threads, one module of two       *)
(* efficient cores with one thread; the efficient cores share their L2     *)
M_x2apic_hybrid ==
  [Mach("x2apic_hybrid", "x2apicid", <<"SOCKET", "CORE", "THREAD">>,
        <<HRow(0, <<0, 0, 0>>, "CORE", 1), HRow(1, <<0, 0, 1>>, "CORE", 1),
          HRow(2, <<0, 1, 0>>, "CORE", 1), HRow(3, <<0, 1, 1>>, "CORE", 1),
          HRow(4, <<0, 2, 0>>, "ATOM", 0), HRow(5, <<0, 3, 0>>, "ATOM", 0)>>,
        {0 .. 5, {0, 2, 4, 5}, {4, 5}})
     EXCEPT !.hybrid = TRUE, !.uniform_caches = FALSE,
            !.caches = <<Cache("L2", KMP_HW_UNKNOWN, <<0, 0, 2, 2, 4, 4>>)>>]

(* hybrid: two packages, each of one performance and one efficient core *)
M_x2apic_hybrid2 ==
  [Mach("x2apic_hybrid2", "x2apicid", <<"SOCKET", "CORE", "THREAD">>,
        <<HRow(0, <<0, 0, 0>>, "CORE", 1), HRow(1, <<0, 1, 0>>, "ATOM", 0),
          HRow(2, <<1, 0, 0>>, "CORE", 1), HRow(3, <<1, 1, 0>>, "ATOM", 0)>>,
        {0 .. 3, {0, 1, 3}})
     EXCEPT !.hybrid = TRUE]

(* Xeon Phi: package / tile / core / thread *)
M_x2apic_mic ==
  [Mach("x2apic_mic", "x2apicid", <<"SOCKET", "TILE", "CORE", "THREAD">>,
        <<Row(0, <<0, 0, 0, 0>>), Row(1, <<0, 0, 0, 1>>),
          Row(2, <<0, 0, 1, 0>>), Row(3, <<0, 0, 1, 1>>),
          Row(4, <<0, 1, 0, 0>>), Row(5, <<0, 1, 0, 1>>),
          Row(6, <<0, 1, 1, 0>>), Row(7, <<0, 1, 1, 1>>)>>,
        {0 .. 7, {0, 4}})
     EXCEPT !.mic3 = TRUE]

(* two processor groups of two processors *)
M_x2apic_groups ==
  [Mach("x2apic_groups", "x2apicid", <<"SOCKET", "CORE", "THREAD">>,
        <<Row(0, <<0, 0, 0>>), Row(1, <<0, 0, 1>>),
          Row(64, <<0, 1, 0>>), Row(65, <<0, 1, 1>>)>>,
        {{0, 1, 64, 65}, {0, 64}})
     EXCEPT !.windows = TRUE, !.num_proc_groups = 2]

(* hwloc tree with caches: two packages, one L3 each, two cores with own   *)
(* L2 and L1 per L3, two PUs per core                                      *)
M_hwloc_cache ==
  Mach("hwloc_cache", "hwloc", <<"SOCKET", "L3", "L2", "L1", "CORE", "THREAD">>,
       <<Row(0, <<0, 0, 0, 0, 0, 0>>), Row(1, <<0, 0, 0, 0, 0, 1>>),
         Row(2, <<0, 0, 1, 0, 0, 0>>), Row(3, <<0, 0, 1, 0, 0, 1>>),
         Row(4, <<1, 0, 0, 0, 0, 0>>), Row(5, <<1, 0, 0, 0, 0, 1>>),
         Row(6, <<1, 0, 1, 0, 0, 0>>), Row(7, <<1, 0, 1, 0, 0, 1>>)>>,
       {0 .. 7, {0, 2, 4, 6}, {2, 3}, {1, 2, 7}})

(* hwloc tree without caches: one package, three dies of two cores, one PU *)
(* per core                                                                *)
M_hwloc_die ==
  Mach("hwloc_die", "hwloc", <<"SOCKET", "DIE", "CORE", "THREAD">>,
       <<Row(0, <<0, 0, 0, 0>>), Row(1, <<0, 0, 1, 0>>),
         Row(2, <<0, 1, 0, 0>>), Row(3, <<0, 1, 1, 0>>),
         Row(4, <<0, 2, 0, 0>>), Row(5, <<0, 2, 1, 0>>)>>,
       {0 .. 5, {0, 2, 4}, {0, 2, 5}, {1, 3}})

(* hwloc tree: one package, two L3, two L2 per L3, two cores with own L1   *)
(* per L2, one PU per core                                                 *)
M_hwloc_l3l2 ==
  Mach("hwloc_l3l2", "hwloc", <<"SOCKET", "L3", "L2", "L1", "CORE", "THREAD">>,
       <<Row(0, <<0, 0, 0, 0, 0, 0>>), Row(1, <<0, 0, 0, 1, 0, 0>>),
         Row(2, <<0, 0, 1, 0, 0, 0>>), Row(3, <<0, 0, 1, 1, 0, 0>>),
         Row(4, <<0, 1, 0, 0, 0, 0>>), Row(5, <<0, 1, 0, 1, 0, 0>>),
         Row(6, <<0, 1, 1, 0, 0, 0>>), Row(7, <<0, 1, 1, 1, 0, 0>>)>>,
       {0 .. 7, {0, 1, 2, 4}})

(* Xeon Phi read through /proc/cpuinfo: no tile, no cache layer *)
M_cpuinfo_mic ==
  [Mach("cpuinfo_mic", "cpuinfo", <<>>, TreeRows(1, 2, 2), {0 .. 3})
     EXCEPT !.mic3 = TRUE]

(* legacy APIC ids of two packages of two cores of two threads: the APIC  *)
(* id, maxThreadsPerPkg and maxCoresPerPkg of each processor               *)
ApicRows(ids) == [k \in 1 .. Len(ids) |-> Row(k - 1, <<ids[k], 4, 2>>)]

M_apicid ==
  Mach("apicid", "apicid", <<>>, ApicRows(<<0, 1, 2, 3, 4, 5, 6, 7>>),
       {0 .. 7, {0, 1, 2, 4}})

(* two processors report the APIC id 2 *)
M_apicid_dup ==
  Mach("apicid_dup", "apicid", <<>>, ApicRows(<<0, 1, 2, 2>>), {0 .. 3, {0, 1, 2}})

(* processor 1 reports one thread and two cores per package: the width of *)
(* its thread field would be negative                                      *)
M_apicid_invalid ==
  Mach("apicid_invalid", "apicid", <<>>,
       <<Row(0, <<0, 4, 2>>), Row(1, <<1, 1, 2>>), Row(2, <<2, 4, 2>>)>>,
       {0 .. 2, {0, 2}})

(* leaf 0xB of processor 1 describes no level *)
M_x2apic_nolevel ==
  Mach("x2apic_nolevel", "x2apicid", <<"SOCKET", "CORE", "THREAD">>,
       <<Row(0, <<0, 0, 0>>), Row(1, <<>>), Row(2, <<0, 1, 0>>)>>,
       {0 .. 2, {0, 2}})

M_apicid_dup_pinned ==
  [M_apicid_dup EXCEPT !.name = "apicid_dup_pinned", !.pinned = TRUE]

(* KMP_CPUINFO_FILE names the file of M_cpuinfo_dup *)
M_cpuinfo_dup_file ==
  [M_cpuinfo_dup EXCEPT !.name = "cpuinfo_dup_file", !.cpuinfo_file = TRUE]

M_hwloc_pinned == [M_hwloc_l3l2 EXCEPT !.name = "hwloc_pinned", !.pinned = TRUE]

Machines ==
  {M_apicid_invalid, M_x2apic_nolevel, M_apicid, M_apicid_dup, M_apicid_dup_pinned, M_cpuinfo_dup_file, M_hwloc_pinned,
   M_hwloc_l3l2, M_cpuinfo_mic, M_flat, M_group, M_cpuinfo, M_cpuinfo_nocore, M_cpuinfo_partial,
   M_cpuinfo_dup, M_cpuinfo_dup_pinned, M_cpuinfo_smt422, M_2x8x2,
   M_x2apic_die, M_x2apic_diecore, M_x2apic_cache, M_x2apic_hybrid,
   M_x2apic_mic, M_x2apic_groups, M_hwloc_cache, M_hwloc_die}

(***************************************************************************)
(* State machine                                                           *)
(***************************************************************************)
NoGlobals == [nThreadsPerCore |-> 0, nCoresPerPkg |-> 0, nPackages |-> 0, ncores |-> 0]

(* the affinity settings as the environment parser leaves them *)
Affinity(type, gran, compact, offset, flags, proclist) ==
  [type |-> type, gran |-> gran, gran_levels |-> -1, compact |-> compact,
   offset |-> offset,
   flags |-> [verbose |-> flags.verbose, warnings |-> flags.warnings,
              dups |-> flags.dups, omp_places |-> FALSE,
              core_types_gran |-> FALSE, core_effs_gran |-> FALSE,
              initialized |-> FALSE],
   core_attr_gran |-> NoAttrs, proclist |-> proclist,
   num_masks |-> 0, masks |-> <<>>, num_os_id_masks |-> 0, os_id_masks |-> <<>>,
   ids |-> <<>>, attrs |-> <<>>]

Flags(verbose, warn, dups) == [verbose |-> verbose, warnings |-> warn, dups |-> dups]

(* bounds of the subset requests *)
MaxSubsetNum == 2

MaxSubsetOffset == 1

SubsetNums == 1 .. MaxSubsetNum \union {USE_ALL}

SubsetLayers == {"SOCKET", "CORE", "THREAD", "DIE", "L2"}

Requests ==
  {NoSubset}
  \union {Subset(a, <<SubItem(t, n, o)>>) :
            a \in BOOLEAN, t \in SubsetLayers, n \in SubsetNums,
            o \in 0 .. MaxSubsetOffset}
  \union {Subset(FALSE, <<SubItem("SOCKET", 1, o), SubItem("CORE", n, 0)>>) :
            n \in SubsetNums \union {4}, o \in 0 .. MaxSubsetOffset}
  \union {Subset(FALSE, <<SubItem("THREAD", 1, 0), SubItem(t, 1, 0)>>) :
            t \in {"CORE", "THREAD", "NUMA"}}

(* {0,2,4},{1,3,5},6-11:2 *)
L_braces_range ==
  <<"{", "0", ",", "2", ",", "4", "}", ",", "{", "1", ",", "3", ",", "5",
    "}", ",", "6", "-", "1", "1", ":", "2">>

(* 0,1 *)
L_ids ==
  <<"0", ",", "1">>

(* 3-0:-1 *)
L_down ==
  <<"3", "-", "0", ":", "-", "1">>

(* {0, 1} , 2 - 5 : 3 *)
L_spaces ==
  <<"{", "0", ",", " ", "1", "}", " ", ",", " ", "2", " ", "-", " ", "5",
    " ", ":", " ", "3">>

(* {99,1},7 *)
L_first_invalid ==
  <<"{", "9", "9", ",", "1", "}", ",", "7">>

(* {40,41},99 *)
L_none_valid ==
  <<"{", "4", "0", ",", "4", "1", "}", ",", "9", "9">>

(* {0,1},{2,3} *)
P_sets ==
  <<"{", "0", ",", "1", "}", ",", "{", "2", ",", "3", "}">>

(* {0:2}:3:2 *)
P_run ==
  <<"{", "0", ":", "2", "}", ":", "3", ":", "2">>

(* !{0},1 *)
P_not ==
  <<"!", "{", "0", "}", ",", "1">>

(* {0:2:4},{1:2:+2}:2 *)
P_sub_stride ==
  <<"{", "0", ":", "2", ":", "4", "}", ",", "{", "1", ":", "2", ":", "+",
    "2", "}", ":", "2">>

(* {99} *)
P_none_valid ==
  <<"{", "9", "9", "}">>

(* {6:2}:3 *)
P_fading ==
  <<"{", "6", ":", "2", "}", ":", "3">>

(* !{99},0 *)
P_not_invalid ==
  <<"!", "{", "9", "9", "}", ",", "0">>

(* !{0:4} *)
P_not_run ==
  <<"!", "{", "0", ":", "4", "}">>

ProcLists == {L_braces_range, L_ids, L_down, L_spaces, L_first_invalid, L_none_valid}

PlaceLists ==
  {P_sets, P_run, P_not, P_sub_stride, P_none_valid, P_fading, P_not_invalid,
   P_not_run}

(* bounds of the settings *)
MaxCompact == 2

MaxOffset == 1

MaxPlaces == 2

Quiet == Flags(FALSE, FALSE, TRUE)

Warn == Flags(FALSE, TRUE, TRUE)

Verbose == Flags(TRUE, FALSE, TRUE)

(* settings: the affinity record, the place cap, bind_types[0] *)
Setting(affinity, num_places, bind) ==
  [affinity |-> affinity, num_places |-> num_places, bind |-> bind]

Binds == {Setting(0, 0, "intel")} \union
         {Setting(0, n, "spread") : n \in 0 .. MaxPlaces}

WalkSettings ==
  {Setting(Affinity(type, gran, 0, offset, Flags(FALSE, TRUE, dups), <<>>),
           b.num_places, b.bind) :
     type \in {"logical", "physical"}, gran \in {"THREAD", "CORE"},
     offset \in 0 .. MaxOffset, dups \in BOOLEAN, b \in Binds}
  \union
  {Setting(Affinity(type, gran, compact, 0, Flags(FALSE, TRUE, dups), <<>>),
           b.num_places, b.bind) :
     type \in {"scatter", "compact", "balanced"},
     gran \in {"THREAD", "CORE", "SOCKET"},
     compact \in 0 .. MaxCompact, dups \in BOOLEAN, b \in Binds}

ExplicitSettings ==
  {Setting(Affinity("explicit", gran, 0, 0, f, l), 0, "intel") :
     gran \in {"THREAD", "CORE"}, f \in {Quiet, Warn, Verbose}, l \in ProcLists}
  \union
  {Setting(Affinity("explicit", gran, 0, 0, f, l), 0, "spread") :
     gran \in {"THREAD", "CORE"}, f \in {Quiet, Warn, Verbose}, l \in PlaceLists}

Diagnostics ==
  {Setting(Affinity(d[1], "CORE", 0, 0, d[2], <<>>), 0, "intel") :
     d \in {<<"none", Warn>>, <<"none", Verbose>>, <<"compact", Warn>>,
            <<"compact", Quiet>>}}

(* the machines and the settings the tables of masks are made on: every    *)
(* granularity, the granularities core_type and core_eff on hybrid ones    *)
MaskMachines ==
  {M_x2apic_hybrid, M_x2apic_hybrid2, M_cpuinfo, M_x2apic_die, M_cpuinfo_smt422}

MaskSettings ==
  {Setting(Affinity(type, gran, 0, 0, Warn, <<>>), 0, "intel") :
     type \in {"compact", "scatter"}, gran \in {"THREAD", "CORE", "SOCKET"}}
  \union
  {Setting([Affinity(type, "CORE", 0, 0, Warn, <<>>)
              EXCEPT !.flags.core_types_gran = by_type,
                     !.flags.core_effs_gran = ~ by_type], 0, "intel") :
     type \in {"compact", "scatter"}, by_type \in BOOLEAN}

(* the machines the place lists are built on *)
PlaceMachines ==
  {M_2x8x2, M_cpuinfo, M_cpuinfo_partial, M_cpuinfo_smt422, M_x2apic_cache,
   M_x2apic_groups, M_hwloc_die, M_flat}

KMP_PLACE_ALL == -1

KMP_PLACE_UNDEFINED == -2

(* the largest global thread id *)
MaxGtid == 3

Gtids == 0 .. MaxGtid

(* no place chosen *)
NoPlace == KMP_PLACE_UNDEFINED - 1

UnknownIds == [os_id |-> UNKNOWN_ID, ids |-> [t \in HwTypes |-> UNKNOWN_ID]]

(* a thread as __kmp_allocate_thread leaves it *)
NoThread ==
  [state |-> "free", th_affin_mask |-> {},
   th_current_place |-> KMP_PLACE_UNDEFINED, th_new_place |-> KMP_PLACE_UNDEFINED,
   th_first_place |-> KMP_PLACE_UNDEFINED, th_last_place |-> KMP_PLACE_UNDEFINED,
   th_topology_ids |-> UnknownIds, th_topology_attrs |-> NoAttrs,
   th_topology_read |-> "none"]

(* the record of a call: what it was and of which thread, its argument,    *)
(* the slot of the thread before it, the slot writes and OS calls in their *)
(* order, what it returned, the mask it was given and the mask afterwards  *)
Call(op, gtid, arg, before, events, retval, mask, out) ==
  [op |-> op, gtid |-> gtid, arg |-> arg, before |-> before, events |-> events,
   retval |-> retval, mask |-> mask, out |-> out]

NoCall == Call("none", 0, 0, {}, <<>>, 0, {}, {})

SlotWrite(mask) == [what |-> "slot", mask |-> mask]

OsBind(mask) == [what |-> "os", mask |-> mask]

StartThreads(helpers, check, hh) ==
  /\ __kmp_threads = [g \in Gtids |-> NoThread]
  /\ os_affinity = [g \in Gtids |-> __kmp_affin_origMask]
  /\ call = NoCall
  /\ ncalls = 0
  /\ __kmp_hidden_helper_threads_num = helpers
  /\ __kmp_env_consistency_check = check
  /\ __kmp_hh_affinity = hh

(* the settings of the hidden helpers when none is asked for *)
NoHelperAffinity == Affinity("none", "CORE", 0, 0, Quiet, <<>>)

Start(m, mask, request, setting) ==
  /\ machine = m
  /\ pc = "start"
  /\ __kmp_topology = NoTopology
  /\ __kmp_affin_fullMask = mask
  /\ __kmp_affin_origMask = mask
  /\ __kmp_avail_proc = Cardinality(mask)
  /\ globals = NoGlobals
  /\ __kmp_hw_subset = request
  /\ filtered = FALSE
  /\ __kmp_affinity = setting.affinity
  /\ __kmp_affinity_num_places = setting.num_places
  /\ bind_type = setting.bind
  /\ procarr = <<>>
  /\ places_written = 0
  /\ warnings = {}
  /\ tried = <<>>

(* every machine under every request, the settings varying in what they   *)
(* report                                                                  *)
Init ==
  \E m \in Machines : \E mask \in m.masks : \E request \in Requests :
    \E setting \in Diagnostics :
      Start(m, mask, request, setting) /\ StartThreads(0, FALSE, NoHelperAffinity)

InitMasks ==
  \E m \in MaskMachines : \E mask \in m.masks : \E setting \in MaskSettings :
    Start(m, mask, NoSubset, setting) /\ StartThreads(0, FALSE, NoHelperAffinity)

(* KMP_HW_SUBSET with one item on the cores of one attribute: n@o cores of *)
(* a core type or of a core efficiency                                     *)
AttrItem(type, num, offset, attr) ==
  [type |-> type, num |-> <<num>>, offset |-> <<offset>>, attr |-> <<attr>>]

CoreAttrs ==
  {Attrs("ATOM", UNKNOWN_CORE_EFF), Attrs("CORE", UNKNOWN_CORE_EFF),
   Attrs(KMP_HW_CORE_TYPE_UNKNOWN, 0), Attrs(KMP_HW_CORE_TYPE_UNKNOWN, 1)}

AttrRequests ==
  {Subset(FALSE, <<AttrItem("CORE", n, o, a)>>) :
     n \in SubsetNums, o \in 0 .. MaxSubsetOffset, a \in CoreAttrs}

(* the hybrid machines: one package, two packages *)
AttrMachines == {M_x2apic_hybrid, M_x2apic_hybrid2}

InitAttrs ==
  \E m \in AttrMachines : \E mask \in m.masks : \E request \in AttrRequests :
    \E setting \in Diagnostics :
      Start(m, mask, request, setting) /\ StartThreads(0, FALSE, NoHelperAffinity)

(* the place-list machines under every policy *)
InitPlaces ==
  \E m \in PlaceMachines : \E mask \in m.masks :
    \E setting \in WalkSettings \union ExplicitSettings :
      Start(m, mask, NoSubset, setting) /\ StartThreads(0, FALSE, NoHelperAffinity)

(* the machines the threads are bound on *)
BindMachines ==
  {[M_flat EXCEPT !.masks = {{0, 1, 2, 3}, {0, 2, 3}}],
   [M_cpuinfo EXCEPT !.masks = {0 .. 7}],
   [M_group EXCEPT !.masks = {{0, 1, 64, 65}}]}

(* OMP_PROC_BIND=false; KMP_AFFINITY policies; OMP_PLACES with OMP_PROC_BIND *)
BindSettings ==
  {Setting(Affinity(type, "CORE", 0, 0, Quiet, <<>>), 0, "false") :
     type \in {"none", "balanced", "compact"}}
  \union
  {Setting(Affinity(type, gran, 0, offset, Quiet, <<>>), 0, bind) :
     type \in {"compact", "balanced", "logical"}, gran \in {"THREAD", "CORE"},
     offset \in 0 .. MaxOffset, bind \in {"intel", "spread"}}

(* KMP_HIDDEN_HELPER_AFFINITY *)
HelperSettings ==
  {NoHelperAffinity,
   Affinity("compact", "THREAD", 0, 1, Quiet, <<>>),
   Affinity("balanced", "CORE", 0, 0, Quiet, <<>>)}

(* the hidden helpers of the runtime: none, or two *)
HelperNums == {0, 2}

InitBind ==
  \E m \in BindMachines : \E mask \in m.masks : \E setting \in BindSettings :
    \E helpers \in HelperNums : \E check \in BOOLEAN :
      \E hh \in IF helpers = 0 THEN {NoHelperAffinity} ELSE HelperSettings :
        Start(m, mask, NoSubset, setting) /\ StartThreads(helpers, check, hh)

(* the machines and the settings the calls are made on *)
CallMachines ==
  {[M_flat EXCEPT !.masks = {{0, 1, 2, 3}, {0, 2, 3}}],
   [M_cpuinfo EXCEPT !.masks = {0 .. 7, {0, 1, 2, 4}}],
   [M_group EXCEPT !.masks = {{0, 1, 64, 65}}]}

(* two packages of two cores of one thread *)
M_2x2x1 ==
  Mach("2x2x1", "cpuinfo", <<>>, TreeRows(2, 2, 1), {0 .. 3})

(* the machines and the settings of the runs under the policy "balanced":  *)
(* uniform ones with and without several threads per core, ones whose      *)
(* cores hold different numbers of processors                              *)
BalancedMachines ==
  {[M_flat EXCEPT !.masks = {{0, 1, 2, 3}}],
   [M_cpuinfo EXCEPT !.masks = {0 .. 7, {0, 1, 2, 4}}],
   M_2x2x1,
   [M_cpuinfo_smt422 EXCEPT !.masks = {0 .. 7, {0, 1, 2, 3, 5, 6}}]}

BalancedSettings ==
  {Setting(Affinity("balanced", g, 0, 0, Quiet, <<>>), 0, "intel") :
     g \in {"THREAD", "CORE", "SOCKET"}}

InitBalanced ==
  \E m \in BalancedMachines : \E mask \in m.masks : \E setting \in BalancedSettings :
    Start(m, mask, NoSubset, setting) /\ StartThreads(0, FALSE, NoHelperAffinity)

CallSettings ==
  {Setting(Affinity("none", "CORE", 0, 0, Quiet, <<>>), 0, "false"),
   Setting(Affinity("compact", "THREAD", 0, 0, Quiet, <<>>), 0, "spread"),
   Setting(Affinity("balanced", "CORE", 0, 0, Quiet, <<>>), 0, "intel"),
   Setting(Affinity("balanced", "THREAD", 0, 0, Quiet, <<>>), 0, "intel")}

(* KMP_HIDDEN_HELPER_AFFINITY of the runs with hidden helpers *)
CallHelperSettings ==
  {Affinity("compact", "THREAD", 0, 1, Quiet, <<>>),
   Affinity("compact", "THREAD", 1, 0, Quiet, <<>>)}

InitCalls ==
  \E m \in CallMachines : \E mask \in m.masks : \E setting \in CallSettings :
    \E helpers \in HelperNums : \E check \in BOOLEAN :
      \E hh \in IF helpers = 0 THEN {NoHelperAffinity}
                 ELSE CallHelperSettings :
        Start(m, mask, NoSubset, setting) /\ StartThreads(helpers, check, hh)

create_map(method, mask) ==
  CASE method = "flat" -> __kmp_affinity_create_flat_map(mask)
    [] method = "group" -> __kmp_affinity_create_proc_group_map(mask)
    [] method = "cpuinfo" -> __kmp_affinity_create_cpuinfo_map(mask)
    [] method = "apicid" -> __kmp_affinity_create_apicid_map(mask)
    [] method = "x2apicid" -> __kmp_affinity_create_x2apicid_map(mask)
    [] method = "hwloc" -> __kmp_affinity_create_hwloc_map(mask)

(* the back-ends of __kmp_aux_affinity_initialize_topology in the order of *)
(* the default code path                                                   *)
affinity_top_methods == <<"hwloc", "x2apicid", "apicid", "cpuinfo", "group", "flat">>

(* the back-ends the build of the machine holds: hwloc where the library   *)
(* is the dispatcher, the CPUID ones on x86, /proc/cpuinfo on Linux, the    *)
(* processor groups on Windows                                             *)
built ==
  (IF machine.method = "hwloc" THEN {"hwloc"} ELSE {})
    \union (IF machine.windows \/ machine.method \in {"hwloc", "x2apicid", "apicid"}
              THEN {"x2apicid", "apicid"} ELSE {})
    \union (IF ~ machine.windows /\ machine.method # "flat" THEN {"cpuinfo"} ELSE {})
    \union (IF machine.windows THEN {"group"} ELSE {})
    \union {"flat"}

(* __kmp_affinity_top_method: KMP_CPUINFO_FILE stands for the method       *)
(* cpuinfo                                                                 *)
__kmp_affinity_top_method ==
  IF machine.pinned THEN machine.method
  ELSE IF machine.cpuinfo_file THEN "cpuinfo"
  ELSE "all"

(* one back-end on the machine: the tree of hwloc, the CPUID leaves and    *)
(* the cpuinfo file are there for the method of the machine only, the      *)
(* other back-ends report that their source is missing                     *)
try_map(method, mask) ==
  IF method = machine.method \/ method \in {"group", "flat"}
    THEN create_map(method, mask)
  ELSE [ok |-> FALSE, T |-> NoTopology, G |-> globals]

(* kmp_affinity_raii_t: the mask of the thread is saved when the object is *)
(* made; restore() and the destructor set it back once                     *)
kmp_affinity_raii_t(current) == [mask |-> current, restored |-> FALSE]

raii_restore(raii, current) ==
  [raii |-> [raii EXCEPT !.restored = TRUE],
   thread |-> IF raii.restored THEN current ELSE raii.mask]

(* the processors at which the walk of a CPUID back-end returns: the       *)
(* legacy APIC fields are invalid, leaf 0xB describes no level             *)
early_exits(method, mask) ==
  {row.os_id : row \in
     {r \in {Included(machine.rows, mask)[k] :
               k \in 1 .. Len(Included(machine.rows, mask))} :
        IF method = "apicid" THEN ~ apicThreadInfo(r).valid
        ELSE DOMAIN r.ids = {}}}

SetMin(S) == CHOOSE x \in S : \A y \in S : x <= y

SetMax(S) == CHOOSE x \in S : \A y \in S : y <= x

(* variant: the mask is restored by the call after the walk only *)
pinned_walk_unscoped(early, mask, entry) ==
  IF early # {} THEN {SetMin(early)} ELSE entry

(* the mask of the calling thread when a CPUID back-end returns: the       *)
(* thread is bound to each processor of the full mask in turn; a return    *)
(* inside the walk runs the destructor of previous_affinity, the end of    *)
(* the walk is followed by restore() and, at the return, the destructor    *)
pinned_walk(early, mask, entry) ==
  With(kmp_affinity_raii_t(entry), LAMBDA previous_affinity :
    IF early # {}
      THEN raii_restore(previous_affinity, {SetMin(early)}).thread
    ELSE With(raii_restore(previous_affinity, {SetMax(mask)}), LAMBDA after :
           raii_restore(after.raii, after.thread).thread))

(* the mask of the calling thread when the back-end returns *)
map_thread_mask(method, mask, entry) ==
  IF method = machine.method /\ method \in {"apicid", "x2apicid"}
    THEN pinned_walk(early_exits(method, mask), mask, entry)
  ELSE entry

(* the mask of the calling thread after the back-ends tried0[k..] *)
RECURSIVE maps_thread_mask(_, _, _, _)
maps_thread_mask(tried0, k, mask, entry) ==
  IF k > Len(tried0) THEN entry
  ELSE maps_thread_mask(tried0, k + 1, mask, map_thread_mask(tried0[k], mask, entry))

(* variant: every back-end of the build is run, the last success is kept *)
RECURSIVE default_maps_all(_, _, _, _)
default_maps_all(k, mask, r0, tried0) ==
  IF k > Len(affinity_top_methods) THEN [r |-> r0, tried |-> tried0]
  ELSE IF affinity_top_methods[k] \notin built
          \/ (affinity_top_methods[k] = "group" /\ ~ machine.num_proc_groups > 1)
    THEN default_maps_all(k + 1, mask, r0, tried0)
  ELSE With(try_map(affinity_top_methods[k], mask), LAMBDA r :
         default_maps_all(k + 1, mask, IF r.ok THEN r ELSE r0,
                          Append(tried0, affinity_top_methods[k])))

(* the default code path from back-end k on: success is the result of the  *)
(* first back-end that returns true                                        *)
RECURSIVE default_maps(_, _, _, _)
default_maps(k, mask, r0, tried0) ==
  IF k > Len(affinity_top_methods) THEN [r |-> r0, tried |-> tried0]
  ELSE IF affinity_top_methods[k] \notin built
          \/ (affinity_top_methods[k] = "group" /\ ~ machine.num_proc_groups > 1)
    THEN default_maps(k + 1, mask, r0, tried0)
  ELSE With(try_map(affinity_top_methods[k], mask), LAMBDA r :
         IF r.ok THEN [r |-> r, tried |-> Append(tried0, affinity_top_methods[k])]
         ELSE default_maps(k + 1, mask, r,
                           Append(tried0, affinity_top_methods[k])))

(* the back-end selection of __kmp_aux_affinity_initialize_topology; the   *)
(* failure of a method the user chose is fatal                             *)
Discover ==
  /\ pc = "start"
  /\ \E d \in {IF __kmp_affinity_top_method = "all"
                  THEN default_maps(1, __kmp_affin_fullMask,
                                    [ok |-> FALSE, T |-> NoTopology, G |-> globals], <<>>)
                ELSE [r |-> try_map(__kmp_affinity_top_method, __kmp_affin_fullMask),
                      tried |-> <<__kmp_affinity_top_method>>]} :
        /\ tried' = d.tried
        /\ os_affinity' =
             [os_affinity EXCEPT
                ![0] = maps_thread_mask(d.tried, 1, __kmp_affin_fullMask, @)]
        /\ IF d.r.ok
             THEN /\ __kmp_topology' = d.r.T
                  /\ globals' = d.r.G
                  /\ pc' = "discovered"
             ELSE /\ pc' = "aborted"
                  /\ UNCHANGED <<__kmp_topology, globals>>
  /\ UNCHANGED <<machine, __kmp_affin_fullMask, __kmp_affin_origMask,
                 __kmp_avail_proc, __kmp_hw_subset, filtered, __kmp_affinity,
                 __kmp_affinity_num_places, bind_type, procarr,
                 places_written, warnings>>
  /\ UNCHANGED <<__kmp_threads, call, ncalls, __kmp_hidden_helper_threads_num,
                 __kmp_env_consistency_check, __kmp_hh_affinity>>

(* a failed KMP_ASSERT ends the process in a build with assertions and is  *)
(* not evaluated in a build without them                                   *)
AssertOutcomes(ok) == IF ok THEN {"pass"} ELSE {"abort", "pass"}

Canonicalize ==
  /\ pc = "discovered"
  /\ \E r \in {canonicalize(__kmp_topology)} :
          \E outcome \in AssertOutcomes(r.ok) :
            IF outcome = "abort"
              THEN /\ pc' = "aborted"
                   /\ UNCHANGED <<__kmp_topology, globals>>
              ELSE /\ __kmp_topology' = r.T
                   /\ globals' \in r.G
                   /\ pc' = "canonical"
  /\ UNCHANGED <<tried, machine, __kmp_affin_fullMask, __kmp_affin_origMask,
                 __kmp_avail_proc, __kmp_hw_subset, filtered, __kmp_affinity,
                 __kmp_affinity_num_places, bind_type, procarr,
                 places_written, warnings>>
  /\ UNCHANGED bindVars

(* the topology, the masks and the globals as they stand *)
Current ==
  Sys(__kmp_topology, __kmp_affin_fullMask, __kmp_affin_origMask,
      __kmp_avail_proc, globals)

FilterHwSubset ==
  /\ pc = "canonical"
  /\ \E r \in {filter_hw_subset(Current, __kmp_hw_subset, __kmp_affinity)} :
          \E outcome \in AssertOutcomes(r.S.ok) :
            IF outcome = "abort"
              THEN /\ pc' = "aborted"
                   /\ UNCHANGED <<__kmp_topology, __kmp_affin_fullMask,
                                  __kmp_affin_origMask, __kmp_avail_proc, globals,
                                  __kmp_hw_subset, filtered, warnings>>
              ELSE /\ __kmp_topology' = r.S.T
                   /\ __kmp_affin_fullMask' = r.S.fullMask
                   /\ __kmp_affin_origMask' = r.S.origMask
                   /\ __kmp_avail_proc' = r.S.avail_proc
                   /\ globals' = r.S.G
                   /\ __kmp_hw_subset' = r.sub
                   /\ filtered' = r.ret
                   /\ warnings' = warnings \union r.warn
                   /\ pc' = "filtered"
  /\ UNCHANGED <<tried, machine, __kmp_affinity, __kmp_affinity_num_places, bind_type,
                 procarr, places_written>>
  /\ UNCHANGED bindVars

AffinityInitialize ==
  /\ pc = "filtered"
  /\ \E r \in {__kmp_aux_affinity_initialize(Current, __kmp_affinity,
                                             __kmp_affinity_num_places, bind_type)} :
        \E outcome \in AssertOutcomes(r.ok) :
          IF outcome = "abort"
            THEN /\ pc' = "aborted"
                 /\ UNCHANGED <<__kmp_topology, __kmp_affin_fullMask,
                                __kmp_affin_origMask, __kmp_avail_proc, globals,
                                __kmp_affinity, procarr, places_written, warnings>>
            ELSE /\ __kmp_topology' = r.S.T
                 /\ __kmp_affin_fullMask' = r.S.fullMask
                 /\ __kmp_affin_origMask' = r.S.origMask
                 /\ __kmp_avail_proc' = r.S.avail_proc
                 /\ globals' = r.S.G
                 /\ __kmp_affinity' = r.affinity
                 /\ procarr' = r.procarr
                 /\ places_written' = r.written
                 /\ warnings' = warnings \union r.warn
                 /\ pc' = "initialized"
  /\ UNCHANGED <<tried, machine, __kmp_hw_subset, filtered, __kmp_affinity_num_places,
                 bind_type>>
  /\ UNCHANGED bindVars

(***************************************************************************)
(* Threads and their binding                                               *)
(***************************************************************************)
KMP_HIDDEN_HELPER_THREAD(gtid) ==
  gtid >= 1 /\ gtid <= __kmp_hidden_helper_threads_num

KMP_HIDDEN_HELPER_MAIN_THREAD(gtid) ==
  gtid = 1 /\ gtid <= __kmp_hidden_helper_threads_num

__kmp_adjust_gtid_for_hidden_helpers(gtid) ==
  IF __kmp_hidden_helper_threads_num > 0 /\ gtid > 0
       /\ gtid - __kmp_hidden_helper_threads_num >= 0
    THEN gtid - __kmp_hidden_helper_threads_num
    ELSE gtid

KMP_AFFINITY_NON_PROC_BIND ==
  /\ bind_type \in {"false", "intel"}
  /\ __kmp_affinity.num_masks > 0 \/ __kmp_affinity.type = "balanced"

(* the machine has several processor groups and the build knows them *)
GroupAffinity == machine.windows /\ machine.num_proc_groups > 1

(* i % n as the machine computes it once the int i has become an unsigned  *)
(* of 32 bits: 2^32 + i stands for a negative i                            *)
UnsignedMod(i, n) ==
  IF i >= 0 THEN i % n
  ELSE ((((65536 % n) * (65536 % n)) % n) + (i % n)) % n

(* variant: the offset is not added *)
__kmp_select_mask_by_gtid_no_offset(gtid, affinity) ==
  UnsignedMod(IF KMP_HIDDEN_HELPER_THREAD(gtid) THEN gtid - 2
              ELSE __kmp_adjust_gtid_for_hidden_helpers(gtid), affinity.num_masks)

(* __kmp_select_mask_by_gtid: the place of the thread *)
__kmp_select_mask_by_gtid(gtid, affinity) ==
  UnsignedMod((IF KMP_HIDDEN_HELPER_THREAD(gtid) THEN gtid - 2
               ELSE __kmp_adjust_gtid_for_hidden_helpers(gtid)) + affinity.offset,
              affinity.num_masks)

(* the settings a thread is bound by *)
AffinityOf(gtid) ==
  IF KMP_HIDDEN_HELPER_THREAD(gtid) THEN __kmp_hh_affinity ELSE __kmp_affinity

(* variant: every thread gets the place of its number *)
init_place_by_gtid(gtid, isa_root) ==
  __kmp_select_mask_by_gtid(gtid, AffinityOf(gtid))

(* the place __kmp_affinity_set_init_mask chooses: NoPlace when it leaves  *)
(* before choosing                                                         *)
init_place(gtid, isa_root) ==
  IF KMP_AFFINITY_NON_PROC_BIND \/ KMP_HIDDEN_HELPER_THREAD(gtid)
    THEN IF AffinityOf(gtid).type \in {"none", "balanced"}
              \/ KMP_HIDDEN_HELPER_MAIN_THREAD(gtid)
           THEN IF GroupAffinity THEN NoPlace ELSE 0
           ELSE __kmp_select_mask_by_gtid(gtid, AffinityOf(gtid))
    ELSE IF ~ isa_root \/ bind_type = "false"
           THEN IF GroupAffinity THEN NoPlace ELSE KMP_PLACE_ALL
           ELSE __kmp_select_mask_by_gtid(gtid, AffinityOf(gtid))

(* the mask of the place: the full mask, or the place of the settings *)
init_mask(gtid, isa_root, i) ==
  IF KMP_AFFINITY_NON_PROC_BIND \/ KMP_HIDDEN_HELPER_THREAD(gtid)
    THEN IF AffinityOf(gtid).type \in {"none", "balanced"}
              \/ KMP_HIDDEN_HELPER_MAIN_THREAD(gtid)
           THEN __kmp_affin_fullMask
           ELSE AffinityOf(gtid).masks[i + 1]
    ELSE IF ~ isa_root \/ bind_type = "false"
           THEN __kmp_affin_fullMask
           ELSE AffinityOf(gtid).masks[i + 1]

(* __kmp_affinity_set_init_mask: the thread afterwards; ids and attrs are  *)
(* read from the regular settings whichever settings gave the place        *)
__kmp_affinity_set_init_mask(th, gtid, isa_root) ==
  With(init_place(gtid, isa_root), LAMBDA i :
    IF i = NoPlace
      THEN [th EXCEPT !.state = "masked", !.th_affin_mask = {},
                      !.th_topology_ids = UnknownIds, !.th_topology_attrs = NoAttrs,
                      !.th_topology_read = "none"]
      ELSE [th EXCEPT
              !.state = "masked",
              !.th_current_place = i,
              !.th_new_place = IF isa_root /\ ~ KMP_HIDDEN_HELPER_THREAD(gtid)
                                 THEN i ELSE @,
              !.th_first_place =
                 IF (isa_root /\ ~ KMP_HIDDEN_HELPER_THREAD(gtid))
                      \/ KMP_AFFINITY_NON_PROC_BIND THEN 0 ELSE @,
              !.th_last_place =
                 IF (isa_root /\ ~ KMP_HIDDEN_HELPER_THREAD(gtid))
                      \/ KMP_AFFINITY_NON_PROC_BIND
                   THEN AffinityOf(gtid).num_masks - 1 ELSE @,
              !.th_topology_ids =
                 IF i >= 0 /\ i < __kmp_affinity.num_masks
                   THEN __kmp_affinity.ids[i + 1] ELSE UnknownIds,
              !.th_topology_attrs =
                 IF i >= 0 /\ i < __kmp_affinity.num_masks
                   THEN __kmp_affinity.attrs[i + 1] ELSE NoAttrs,
              !.th_topology_read =
                 IF i < 0 THEN "none"
                 ELSE IF i < __kmp_affinity.num_masks THEN "inside" ELSE "outside",
              !.th_affin_mask = init_mask(gtid, isa_root, i)])

(* __kmp_affinity_initialize(__kmp_hh_affinity), which the runtime calls   *)
(* when the first hidden helper is needed                                  *)
HiddenHelperInitialize ==
  /\ pc = "initialized"
  /\ __kmp_hidden_helper_threads_num > 0
  /\ ~ __kmp_hh_affinity.flags.initialized
  /\ \E r \in {__kmp_aux_affinity_initialize_helpers(Current, __kmp_hh_affinity)} :
        \E outcome \in AssertOutcomes(r.ok) :
          IF outcome = "abort"
            THEN /\ pc' = "aborted"
                 /\ call' = Call("hidden_helper_initialize", 0, 0, {}, <<>>, -1, {}, {})
                 /\ UNCHANGED <<__kmp_topology, __kmp_affin_fullMask,
                                __kmp_affin_origMask, __kmp_avail_proc, globals,
                                __kmp_hh_affinity, warnings>>
            ELSE /\ __kmp_topology' = r.S.T
                 /\ __kmp_affin_fullMask' = r.S.fullMask
                 /\ __kmp_affin_origMask' = r.S.origMask
                 /\ __kmp_avail_proc' = r.S.avail_proc
                 /\ globals' = r.S.G
                 /\ __kmp_hh_affinity' = r.affinity
                 /\ warnings' = warnings \union r.warn
                 /\ call' = Call("hidden_helper_initialize", 0, 0, {}, <<>>, 0, {}, {})
                 /\ UNCHANGED pc
  /\ UNCHANGED <<tried, machine, __kmp_hw_subset, filtered, __kmp_affinity,
                 __kmp_affinity_num_places, bind_type, procarr, places_written,
                 __kmp_threads, os_affinity, ncalls,
                 __kmp_hidden_helper_threads_num, __kmp_env_consistency_check>>

(* the group of a mask: -1 when it is empty or spans several groups *)
mask_proc_group(mask) ==
  IF machine.num_proc_groups = 1 THEN 1
  ELSE IF Cardinality({__kmp_get_proc_group(p) : p \in mask}) = 1
    THEN CHOOSE g \in {__kmp_get_proc_group(p) : p \in mask} : TRUE
  ELSE -1

(* the processors the system lets a thread of the process run on *)
os_allowed == UNION machine.masks

(* variant: the system takes every mask *)
__kmp_set_system_affinity_any(mask) == 0

(* __kmp_set_system_affinity: 0 when the system took the mask *)
__kmp_set_system_affinity(mask) ==
  IF GroupAffinity /\ mask_proc_group(mask) < 0 THEN -1
  ELSE IF mask \intersect os_allowed = {} THEN -1
  ELSE 0

(* what the system binds the thread to *)
os_bound(old, mask) ==
  IF __kmp_set_system_affinity(mask) = 0 THEN mask \intersect os_allowed ELSE old

(* a regular thread may come at any time after initialization, a hidden    *)
(* helper once the settings of the helpers are initialized                 *)
MayRegister(gtid) ==
  /\ pc = "initialized"
  /\ __kmp_threads[gtid].state = "free"
  /\ KMP_HIDDEN_HELPER_THREAD(gtid) => __kmp_hh_affinity.flags.initialized

(* the threads alive at a time *)
MaxThreads == 1

Registered == {g \in Gtids : __kmp_threads[g].state # "free"}

SetInitMask ==
  \E gtid \in Gtids : \E isa_root \in BOOLEAN :
    /\ MayRegister(gtid)
    /\ Cardinality(Registered) < MaxThreads
    /\ gtid = 0 => isa_root
    /\ \E th \in {__kmp_affinity_set_init_mask(__kmp_threads[gtid], gtid, isa_root)} :
       \E outcome \in AssertOutcomes(th.th_topology_read # "outside") :
         IF outcome = "abort"
           THEN /\ pc' = "aborted"
                /\ call' = Call("set_init_mask", gtid, isa_root,
                                 __kmp_threads[gtid].th_affin_mask, <<>>, -1, {}, {})
                /\ UNCHANGED __kmp_threads
           ELSE /\ __kmp_threads' = [__kmp_threads EXCEPT ![gtid] = th]
                /\ call' = Call("set_init_mask", gtid, isa_root,
                                 __kmp_threads[gtid].th_affin_mask,
                                 IF init_place(gtid, isa_root) = NoPlace THEN <<>>
                                 ELSE <<SlotWrite(th.th_affin_mask)>>,
                                 0, {}, {})
                /\ UNCHANGED pc
    /\ UNCHANGED <<tried, machine, __kmp_topology, __kmp_affin_fullMask,
                   __kmp_affin_origMask, __kmp_avail_proc, globals, __kmp_hw_subset,
                   filtered, __kmp_affinity, __kmp_affinity_num_places, bind_type,
                   procarr, places_written, warnings, os_affinity, ncalls,
                   __kmp_hidden_helper_threads_num, __kmp_env_consistency_check,
                   __kmp_hh_affinity>>

(* __kmp_affinity_bind_init_mask: the system call is fatal when it fails,  *)
(* but for the settings "none" on Windows                                  *)
BindInitMask ==
  \E gtid \in Gtids :
    /\ pc = "initialized"
    /\ __kmp_threads[gtid].state = "masked"
    /\ \E mask \in {__kmp_threads[gtid].th_affin_mask} :
         /\ call' = Call("bind_init_mask", gtid, 0, mask, <<OsBind(mask)>>,
                          __kmp_set_system_affinity(mask), {}, {})
         /\ IF __kmp_set_system_affinity(mask) # 0
                 /\ ~ (machine.windows /\ AffinityOf(gtid).type = "none")
              THEN /\ pc' = "aborted"
                   /\ UNCHANGED <<__kmp_threads, os_affinity>>
              ELSE /\ __kmp_threads' = [__kmp_threads EXCEPT ![gtid].state = "bound"]
                   /\ os_affinity' = [os_affinity EXCEPT ![gtid] = os_bound(@, mask)]
                   /\ UNCHANGED pc
    /\ UNCHANGED <<tried, machine, __kmp_topology, __kmp_affin_fullMask,
                   __kmp_affin_origMask, __kmp_avail_proc, globals, __kmp_hw_subset,
                   filtered, __kmp_affinity, __kmp_affinity_num_places, bind_type,
                   procarr, places_written, warnings, ncalls,
                   __kmp_hidden_helper_threads_num, __kmp_env_consistency_check,
                   __kmp_hh_affinity>>

(* the calls of the threads after their first binding *)
MaxCalls == 1

(* a place partition and a new place as the fork of a team gives them to a *)
(* thread under OMP_PROC_BIND: the ends of the place list, in either       *)
(* order, and a place in or near the list; one team is forked at a time    *)
SetPartition ==
  \E gtid \in Gtids :
    /\ pc = "initialized"
    /\ ncalls < MaxCalls
    /\ bind_type \notin {"false", "intel"}
    /\ \A g \in Gtids : __kmp_threads[g].state # "forked"
    /\ __kmp_threads[gtid].state = "bound"
    /\ ~ KMP_HIDDEN_HELPER_THREAD(gtid)
    /\ \E first, last \in {0, __kmp_affinity.num_masks - 1} :
       \E new \in {-1, 0, 1, __kmp_affinity.num_masks - 1, __kmp_affinity.num_masks} :
         /\ __kmp_threads' = [__kmp_threads EXCEPT
                                ![gtid].state = "forked",
                                ![gtid].th_first_place = first,
                                ![gtid].th_last_place = last,
                                ![gtid].th_new_place = new]
         /\ call' = Call("fork", gtid, new, __kmp_threads[gtid].th_affin_mask,
                          <<>>, 0, {}, {})
    /\ UNCHANGED <<tried, machine, pc, __kmp_topology, __kmp_affin_fullMask,
                   __kmp_affin_origMask, __kmp_avail_proc, globals, __kmp_hw_subset,
                   filtered, __kmp_affinity, __kmp_affinity_num_places, bind_type,
                   procarr, places_written, warnings, os_affinity, ncalls,
                   __kmp_hidden_helper_threads_num, __kmp_env_consistency_check,
                   __kmp_hh_affinity>>

(* the assertions of __kmp_affinity_bind_place *)
bind_place_asserts(th) ==
  /\ th.th_new_place >= 0
  /\ th.th_new_place <= __kmp_affinity.num_masks
  /\ IF th.th_first_place <= th.th_last_place
       THEN th.th_new_place >= th.th_first_place /\ th.th_new_place <= th.th_last_place
       ELSE th.th_new_place <= th.th_first_place \/ th.th_new_place >= th.th_last_place

(* what a read of masks[place] gives: the place, or, outside the array,    *)
(* whatever is there                                                       *)
masks_read(place) ==
  IF place >= 0 /\ place < __kmp_affinity.num_masks
    THEN {__kmp_affinity.masks[place + 1]}
    ELSE {{}, __kmp_affin_fullMask}

(* __kmp_affinity_bind_place: a hidden helper is left alone; retval is 0   *)
(* when every assertion held                                               *)
BindPlace ==
  \E gtid \in Gtids :
    /\ pc = "initialized"
    /\ ncalls < MaxCalls
    /\ __kmp_threads[gtid].state =
         IF KMP_HIDDEN_HELPER_THREAD(gtid) THEN "bound" ELSE "forked"
    /\ \E th \in {__kmp_threads[gtid]} :
       \E outcome \in AssertOutcomes(KMP_HIDDEN_HELPER_THREAD(gtid)
                                        \/ bind_place_asserts(th)) :
         IF KMP_HIDDEN_HELPER_THREAD(gtid)
           THEN /\ call' = Call("bind_place_helper", gtid, th.th_new_place,
                                 th.th_affin_mask, <<>>, 0, {}, {})
                /\ ncalls' = ncalls + 1
                /\ UNCHANGED <<pc, __kmp_threads, os_affinity>>
         ELSE IF outcome = "abort"
           THEN /\ pc' = "aborted"
                /\ call' = Call("bind_place", gtid, th.th_new_place, th.th_affin_mask,
                                 <<>>, -1, {}, {})
                /\ ncalls' = ncalls + 1
                /\ UNCHANGED <<__kmp_threads, os_affinity>>
           ELSE \E mask \in masks_read(th.th_new_place) :
                  /\ call' = Call("bind_place", gtid, th.th_new_place, th.th_affin_mask,
                                   <<SlotWrite(mask), OsBind(mask)>>,
                                   IF bind_place_asserts(th) THEN 0 ELSE -1, mask, mask)
                  /\ ncalls' = ncalls + 1
                  /\ IF __kmp_set_system_affinity(mask) # 0
                       THEN /\ pc' = "aborted"
                            /\ UNCHANGED <<__kmp_threads, os_affinity>>
                       ELSE /\ __kmp_threads' =
                                 [__kmp_threads EXCEPT
                                    ![gtid].state = "bound",
                                    ![gtid].th_affin_mask = mask,
                                    ![gtid].th_current_place = th.th_new_place]
                            /\ os_affinity' = [os_affinity EXCEPT ![gtid] = os_bound(@, mask)]
                            /\ UNCHANGED pc
    /\ UNCHANGED <<tried, machine, __kmp_topology, __kmp_affin_fullMask,
                   __kmp_affin_origMask, __kmp_avail_proc, globals, __kmp_hw_subset,
                   filtered, __kmp_affinity, __kmp_affinity_num_places, bind_type,
                   procarr, places_written, warnings,
                   __kmp_hidden_helper_threads_num, __kmp_env_consistency_check,
                   __kmp_hh_affinity>>

(* the masks and the processors the calls are made with *)
UserMasks == {{}, {0}, {1}, {0, 1}, {0, 64}, {9}}

UserProcs == {-1, 0, 1, 8, 128}

(* the masks a bit is set, cleared or read in *)
ProcMasks == {{}, {0, 1}}

(* variant: nothing is checked *)
set_affinity_consistent_unchecked(mask) == TRUE

(* the consistency checks of __kmp_aux_set_affinity *)
set_affinity_consistent(mask) ==
  /\ mask \subseteq __kmp_affin_fullMask
  /\ mask # {}
  /\ machine.windows => mask_proc_group(mask) >= 0

(* variant: the slot is written before the system is called *)
set_affinity_events_slot_first(mask) ==
  <<SlotWrite(mask), OsBind(mask)>>

(* __kmp_aux_set_affinity: the system is called and, when it took the      *)
(* mask, the slot is written                                               *)
set_affinity_events(mask) ==
  IF __kmp_set_system_affinity(mask) = 0 THEN <<OsBind(mask), SlotWrite(mask)>>
  ELSE <<OsBind(mask)>>

(* __kmp_aux_set_affinity *)
SetAffinity ==
  \E gtid \in Gtids : \E mask \in UserMasks :
    /\ pc = "initialized"
    /\ ncalls < MaxCalls
    /\ __kmp_threads[gtid].state = "bound"
    /\ ncalls' = ncalls + 1
    /\ IF __kmp_env_consistency_check /\ ~ set_affinity_consistent(mask)
         THEN /\ pc' = "aborted"
              /\ call' = Call("set_affinity", gtid, 0, __kmp_threads[gtid].th_affin_mask,
                               <<>>, -1, mask, mask)
              /\ UNCHANGED <<__kmp_threads, os_affinity>>
         ELSE /\ call' = Call("set_affinity", gtid, 0, __kmp_threads[gtid].th_affin_mask,
                               set_affinity_events(mask),
                               __kmp_set_system_affinity(mask), mask, mask)
              /\ __kmp_threads' =
                   [__kmp_threads EXCEPT
                      ![gtid].th_affin_mask =
                         IF __kmp_set_system_affinity(mask) = 0 THEN mask ELSE @,
                      ![gtid].th_current_place = KMP_PLACE_UNDEFINED,
                      ![gtid].th_new_place = KMP_PLACE_UNDEFINED,
                      ![gtid].th_first_place = 0,
                      ![gtid].th_last_place = __kmp_affinity.num_masks - 1]
              /\ os_affinity' = [os_affinity EXCEPT ![gtid] = os_bound(@, mask)]
              /\ UNCHANGED pc
    /\ UNCHANGED <<tried, machine, __kmp_topology, __kmp_affin_fullMask,
                   __kmp_affin_origMask, __kmp_avail_proc, globals, __kmp_hw_subset,
                   filtered, __kmp_affinity, __kmp_affinity_num_places, bind_type,
                   procarr, places_written, warnings,
                   __kmp_hidden_helper_threads_num, __kmp_env_consistency_check,
                   __kmp_hh_affinity>>

(* the processors of the machine *)
__kmp_xproc == Cardinality(os_allowed)

__kmp_aux_get_affinity_max_proc ==
  IF GroupAffinity THEN machine.num_proc_groups * BITS_PER_GROUP ELSE __kmp_xproc

MaskProc(retval, out) == [retval |-> retval, out |-> out]

__kmp_aux_set_affinity_mask_proc(proc, mask) ==
  IF proc < 0 \/ proc >= __kmp_aux_get_affinity_max_proc THEN MaskProc(-1, mask)
  ELSE IF proc \notin __kmp_affin_fullMask THEN MaskProc(-2, mask)
  ELSE MaskProc(0, mask \union {proc})

__kmp_aux_unset_affinity_mask_proc(proc, mask) ==
  IF proc < 0 \/ proc >= __kmp_aux_get_affinity_max_proc THEN MaskProc(-1, mask)
  ELSE IF proc \notin __kmp_affin_fullMask THEN MaskProc(-2, mask)
  ELSE MaskProc(0, mask \ {proc})

(* variant: a processor outside the full mask is an error *)
__kmp_aux_get_affinity_mask_proc_error(proc, mask) ==
  IF proc < 0 \/ proc >= __kmp_aux_get_affinity_max_proc THEN MaskProc(-1, mask)
  ELSE IF proc \notin __kmp_affin_fullMask THEN MaskProc(-2, mask)
  ELSE MaskProc(IF proc \in mask THEN 1 ELSE 0, mask)

__kmp_aux_get_affinity_mask_proc(proc, mask) ==
  IF proc < 0 \/ proc >= __kmp_aux_get_affinity_max_proc THEN MaskProc(-1, mask)
  ELSE IF proc \notin __kmp_affin_fullMask THEN MaskProc(0, mask)
  ELSE MaskProc(IF proc \in mask THEN 1 ELSE 0, mask)

(* a call of one of the three on a mask of the caller's *)
MaskProcCall(op, r, proc, mask) ==
  /\ pc = "initialized"
  /\ ncalls < MaxCalls
  /\ ncalls' = ncalls + 1
  /\ call' = Call(op, 0, proc, {}, <<>>, r.retval, mask, r.out)
  /\ UNCHANGED <<tried, machine, pc, __kmp_topology, __kmp_affin_fullMask,
                 __kmp_affin_origMask, __kmp_avail_proc, globals, __kmp_hw_subset,
                 filtered, __kmp_affinity, __kmp_affinity_num_places, bind_type,
                 procarr, places_written, warnings, __kmp_threads, os_affinity,
                 __kmp_hidden_helper_threads_num, __kmp_env_consistency_check,
                 __kmp_hh_affinity>>

SetAffinityMaskProc ==
  \E proc \in UserProcs : \E mask \in ProcMasks :
    MaskProcCall("set_affinity_mask_proc",
                 __kmp_aux_set_affinity_mask_proc(proc, mask), proc, mask)

UnsetAffinityMaskProc ==
  \E proc \in UserProcs : \E mask \in ProcMasks :
    MaskProcCall("unset_affinity_mask_proc",
                 __kmp_aux_unset_affinity_mask_proc(proc, mask), proc, mask)

GetAffinityMaskProc ==
  \E proc \in UserProcs : \E mask \in ProcMasks :
    MaskProcCall("get_affinity_mask_proc",
                 __kmp_aux_get_affinity_mask_proc(proc, mask), proc, mask)

(* the largest team *)
MaxTeam == 6

(* __kmp_balanced_affinity: one processor or the whole core *)
balanced_fine_gran ==
  CASE __kmp_affinity.gran = "THREAD" -> TRUE
    [] __kmp_affinity.gran = "CORE" -> ~ (globals.nThreadsPerCore > 1)
    [] __kmp_affinity.gran = "SOCKET" -> ~ (globals.nCoresPerPkg > 1)
    [] OTHER -> FALSE

os_id_at(i) == __kmp_topology.hw_threads[i].os_id

(* the uniform topology: thread tid of nthreads on ncores cores of         *)
(* nth_per_core processors                                                 *)
balanced_uniform_place(tid, nthreads, ncores, nth_per_core) ==
  With(nthreads \div ncores, LAMBDA chunk :
  With(nthreads % ncores, LAMBDA big_cores :
  With(IF tid < (chunk + 1) * big_cores
         THEN [coreID |-> tid \div (chunk + 1),
               threadID |-> (tid % (chunk + 1)) % nth_per_core]
         ELSE [coreID |-> (tid - big_cores) \div chunk,
               threadID |-> ((tid - big_cores) % chunk) % nth_per_core],
       LAMBDA at :
    IF balanced_fine_gran
      THEN {os_id_at(at.coreID * nth_per_core + at.threadID)}
      ELSE {os_id_at(at.coreID * nth_per_core + i) : i \in 0 .. nth_per_core - 1})))

(* variant: the cores are the units whatever the number of packages *)
balanced_uniform_cores(tid, nthreads) ==
  balanced_uniform_place(tid, nthreads, globals.ncores,
                         __kmp_avail_proc \div globals.ncores)

balanced_uniform(tid, nthreads) ==
  IF globals.nPackages > 1 /\ __kmp_avail_proc \div globals.ncores <= 1
    THEN balanced_uniform_place(tid, nthreads, globals.nPackages,
                                __kmp_avail_proc \div globals.nPackages)
    ELSE balanced_uniform_place(tid, nthreads, globals.ncores,
                                __kmp_avail_proc \div globals.ncores)

(* the processors of core i in procarr *)
procs_of_core(i, nth_per_core) ==
  {procarr[i * nth_per_core + j] : j \in 0 .. nth_per_core - 1} \ {-1}

first_of_core(i, nth_per_core) ==
  procarr[i * nth_per_core
          + CHOOSE j \in 0 .. nth_per_core - 1 :
              /\ procarr[i * nth_per_core + j] # -1
              /\ \A h \in 0 .. j - 1 : procarr[i * nth_per_core + h] = -1]

(* no more threads than cores: thread tid gets the core number tid of the  *)
(* cores that have a processor                                             *)
balanced_few(tid, ncores, nth_per_core) ==
  With({i \in 0 .. ncores - 1 : procs_of_core(i, nth_per_core) # {}}, LAMBDA cores :
  With({i \in cores : Cardinality({h \in cores : h < i}) = tid}, LAMBDA mine :
    IF mine = {} THEN {}
    ELSE IF balanced_fine_gran
      THEN {first_of_core(CHOOSE i \in mine : TRUE, nth_per_core)}
      ELSE procs_of_core(CHOOSE i \in mine : TRUE, nth_per_core)))

(* more threads than cores: the walk over the cores of one value of j,     *)
(* from core i on; st holds newarr, cnt and nth                            *)
RECURSIVE balanced_cores(_, _, _, _, _)
balanced_cores(i, st, flag, ncores, nth_per_core) ==
  IF i >= ncores THEN st
  ELSE IF procs_of_core(i, nth_per_core) = {}
    THEN balanced_cores(i + 1, st, flag, ncores, nth_per_core)
  ELSE With({k \in 0 .. nth_per_core - 1 :
               /\ procarr[i * nth_per_core + k] # -1
               /\ st.newarr[i * nth_per_core + k] = 0 \/ flag # 0}, LAMBDA ks :
       With(IF ks = {} THEN st
            ELSE [newarr |-> [st.newarr EXCEPT
                                ![i * nth_per_core
                                  + CHOOSE k \in ks : \A h \in ks : k <= h] = @ + 1],
                  cnt |-> st.cnt - 1, nth |-> st.nth - 1], LAMBDA st1 :
         IF st1.cnt = 0 \/ st1.nth = 0 THEN st1
         ELSE Then(st1, balanced_cores(i + 1, st1, flag, ncores, nth_per_core))))

(* the cores with j processors or more *)
ncores_with_x_to_max_procs(j, ncores, nth_per_core) ==
  Cardinality({i \in 0 .. ncores - 1 :
                 Cardinality({k \in 0 .. nth_per_core - 1 :
                                procarr[i * nth_per_core + k] # -1}) >= j})

(* one pass of the loop over j = 1 .. nth_per_core *)
RECURSIVE balanced_pass(_, _, _, _, _)
balanced_pass(j, st, flag, ncores, nth_per_core) ==
  IF j > nth_per_core THEN st
  ELSE With(balanced_cores(0, [newarr |-> st.newarr,
                               cnt |-> ncores_with_x_to_max_procs(j, ncores, nth_per_core),
                               nth |-> st.nth],
                           flag, ncores, nth_per_core), LAMBDA st1 :
         IF st1.nth = 0 THEN st1
         ELSE Then(st1, balanced_pass(j + 1, st1, flag, ncores, nth_per_core)))

(* the passes until every thread has a processor: newarr *)
RECURSIVE balanced_newarr(_, _, _, _)
balanced_newarr(st, flag, ncores, nth_per_core) ==
  IF st.nth <= 0 THEN st.newarr
  ELSE With(balanced_pass(1, st, flag, ncores, nth_per_core), LAMBDA st1 :
         Then(st1, balanced_newarr(st1, 1, ncores, nth_per_core)))

RECURSIVE SumTo(_, _)
SumTo(a, i) == IF i < 0 THEN 0 ELSE a[i] + SumTo(a, i - 1)

(* variant: thread tid takes slot tid of procarr, a hole or not *)
balanced_many_slots(tid, nthreads, ncores, nth_per_core) ==
  With(tid % (nth_per_core * ncores), LAMBDA i :
    IF balanced_fine_gran THEN {procarr[i]}
    ELSE procs_of_core(i \div nth_per_core, nth_per_core))

balanced_many(tid, nthreads, ncores, nth_per_core) ==
  With(balanced_newarr([newarr |-> Fill(nth_per_core * ncores, 0), cnt |-> 0,
                        nth |-> nthreads], 0, ncores, nth_per_core), LAMBDA newarr :
  With({i \in 0 .. nth_per_core * ncores - 1 : SumTo(newarr, i) > tid}, LAMBDA over :
    IF over = {} THEN {}
    ELSE With(CHOOSE i \in over : \A h \in over : i <= h, LAMBDA i :
           IF balanced_fine_gran THEN {procarr[i]}
           ELSE procs_of_core(i \div nth_per_core, nth_per_core))))

balanced_nonuniform(tid, nthreads) ==
  With(__kmp_affinity_find_core_level(__kmp_topology, __kmp_avail_proc,
                                      __kmp_topology.depth - 1), LAMBDA core_level :
  With(__kmp_affinity_compute_ncores(__kmp_topology, core_level), LAMBDA ncores :
  With(__kmp_affinity_max_proc_per_core(__kmp_topology, __kmp_topology.depth - 1,
                                        core_level), LAMBDA nth_per_core :
    IF nthreads = __kmp_avail_proc
      THEN IF balanced_fine_gran THEN {os_id_at(tid)}
           ELSE {os_id_at(i) : i \in
                   {h \in 0 .. __kmp_avail_proc - 1 :
                      __kmp_affinity_find_core(__kmp_topology, h, core_level)
                        = __kmp_affinity_find_core(__kmp_topology, tid, core_level)}}
    ELSE IF nthreads <= ncores THEN balanced_few(tid, ncores, nth_per_core)
    ELSE balanced_many(tid, nthreads, ncores, nth_per_core))))

(* variant: every thread gets the first processor *)
__kmp_balanced_affinity_first(tid, nthreads) == {os_id_at(0)}

(* __kmp_balanced_affinity: the mask of thread tid of a team of nthreads *)
__kmp_balanced_affinity(tid, nthreads) ==
  IF __kmp_topology.uniform THEN balanced_uniform(tid, nthreads)
  ELSE balanced_nonuniform(tid, nthreads)

(* the fork of a team under the policy "balanced"; a hidden helper is left *)
(* alone                                                                   *)
BalancedAffinity ==
  \E gtid \in Gtids : \E nthreads \in 1 .. MaxTeam : \E tid \in 0 .. nthreads - 1 :
    /\ pc = "initialized"
    /\ ncalls < MaxCalls
    /\ bind_type = "intel"
    /\ __kmp_affinity.type = "balanced"
    /\ __kmp_threads[gtid].state = "bound"
    /\ ncalls' = ncalls + 1
    /\ IF KMP_HIDDEN_HELPER_THREAD(gtid)
         THEN /\ call' = Call("balanced_helper", gtid, nthreads,
                               __kmp_threads[gtid].th_affin_mask, <<>>, 0, {}, {})
              /\ UNCHANGED <<pc, __kmp_threads, os_affinity>>
         ELSE \E mask \in {__kmp_balanced_affinity(tid, nthreads)} :
              \E info \in {__kmp_affinity_get_mask_topology_info(Current, mask)} :
                /\ call' = Call("balanced", gtid, nthreads,
                                 __kmp_threads[gtid].th_affin_mask,
                                 <<SlotWrite(mask), OsBind(mask)>>,
                                 __kmp_set_system_affinity(mask), tid, mask)
                /\ __kmp_threads' =
                     [__kmp_threads EXCEPT
                        ![gtid].th_affin_mask = mask,
                        ![gtid].th_topology_ids = [os_id |-> info.os_id, ids |-> info.ids],
                        ![gtid].th_topology_attrs = info.attrs,
                        ![gtid].th_topology_read = "inside"]
                /\ IF __kmp_set_system_affinity(mask) # 0
                     THEN pc' = "aborted" /\ UNCHANGED os_affinity
                     ELSE /\ os_affinity' = [os_affinity EXCEPT ![gtid] = os_bound(@, mask)]
                          /\ UNCHANGED pc
    /\ UNCHANGED <<tried, machine, __kmp_topology, __kmp_affin_fullMask,
                   __kmp_affin_origMask, __kmp_avail_proc, globals, __kmp_hw_subset,
                   filtered, __kmp_affinity, __kmp_affinity_num_places, bind_type,
                   procarr, places_written, warnings,
                   __kmp_hidden_helper_threads_num, __kmp_env_consistency_check,
                   __kmp_hh_affinity>>

(***************************************************************************)
(* Properties                                                              *)
(***************************************************************************)
Canonical == pc = "canonical"

InTypes(T, type) == \E l \in 0 .. T.depth - 1 : T.types[l] = type

(* C1: after canonicalize() returns, depth > 0 and every layer l has       *)
(* count[l] > 0, ratio[l] > 0 and equivalent[types[l]] = types[l], also    *)
(* when some layer's id is unknown for some or all threads.                *)
C1_CanonicalPost ==
  Canonical =>
    /\ __kmp_topology.depth > 0
    /\ \A l \in 0 .. __kmp_topology.depth - 1 :
         /\ __kmp_topology.count[l] > 0
         /\ __kmp_topology.ratio[l] > 0
         /\ __kmp_topology.equivalent[__kmp_topology.types[l]] = __kmp_topology.types[l]

(* C2: after canonicalization and after every later restrict_to_mask no    *)
(* two distinct hardware threads have the same ids tuple.                  *)
C2_IdsUnique ==
  pc \in {"canonical", "filtered"} =>
    \A i, j \in 0 .. __kmp_topology.num_hw_threads - 1 :
      i # j => __kmp_topology.hw_threads[i].ids # __kmp_topology.hw_threads[j].ids

RealCaches(T) == {t \in {"L1", "L2", "L3"} : InTypes(T, t)}

InnermostCache(T) ==
  IF "L1" \in RealCaches(T) THEN "L1"
  ELSE IF "L2" \in RealCaches(T) THEN "L2" ELSE "L3"

(* C4, as stated: equivalent[LLC] is the innermost cache kind among L1,    *)
(* L2, L3 that exists in the topology, else SOCKET when it exists, else    *)
(* CORE; never UNKNOWN.                                                    *)
C4_LLCInnermost ==
  Canonical =>
    __kmp_topology.equivalent["LLC"] =
      IF RealCaches(__kmp_topology) # {} THEN InnermostCache(__kmp_topology)
      ELSE IF InTypes(__kmp_topology, "SOCKET") THEN "SOCKET" ELSE "CORE"

Resolved(T, type) ==
  IF T.equivalent[type] = KMP_HW_UNKNOWN THEN type ELSE T.equivalent[type]

Known(T, type) == T.equivalent[type] # KMP_HW_UNKNOWN

(* C4, amended: equivalent[LLC] is what the outermost known cache kind     *)
(* stands for, L3 before L2 before L1 (on Xeon Phi without L3 and L2:      *)
(* TILE if known, else L1 whether known or not); without a known cache     *)
(* kind it is what SOCKET stands for if SOCKET is known, else what CORE    *)
(* stands for; never UNKNOWN.                                              *)
C4_LLCOutermost ==
  Canonical =>
    LET T == __kmp_topology
        pick == IF Known(T, "L3") THEN "L3"
                ELSE IF Known(T, "L2") THEN "L2"
                ELSE IF machine.mic3
                  THEN IF Known(T, "TILE") THEN "TILE" ELSE "L1"
                ELSE IF Known(T, "L1") THEN "L1"
                ELSE IF Known(T, "SOCKET") THEN "SOCKET" ELSE "CORE"
    IN /\ T.equivalent["LLC"] = Resolved(T, pick)
       /\ T.equivalent["LLC"] # KMP_HW_UNKNOWN

C4_Witness ==
  /\ Canonical
  /\ InTypes(__kmp_topology, "L3")
  /\ InTypes(__kmp_topology, "L2")
  /\ __kmp_topology.equivalent["LLC"] = "L3"

(* the parts of the state that restrict_to_mask works on *)
Observed(S) ==
  <<ToSeq(S.T.hw_threads, S.T.num_hw_threads), S.T.num_hw_threads, S.T.count,
    S.T.ratio, S.T.uniform, S.fullMask, S.avail_proc>>

(* number of masks tried per state *)
MaxRestrict == 2

LowIds(mask) == {o \in mask : Cardinality({x \in mask : x < o}) < MaxRestrict}

RestrictMasks(mask) ==
  {mask \ {o} : o \in LowIds(mask)} \union {{o} : o \in LowIds(mask)}
  \union {LowIds(mask), mask \ LowIds(mask), mask \union {99}}

(* C5: restrict_to_mask with the current full mask changes nothing, and    *)
(* restrict_to_mask(m) applied twice leaves the state reached by applying  *)
(* it once.                                                                *)
C5_RestrictNoOpIdempotent ==
  pc \in {"canonical", "filtered"} =>
    /\ Observed(restrict_to_mask(Current, __kmp_affin_fullMask)) = Observed(Current)
    /\ restrict_to_mask(Current, __kmp_affin_fullMask) = Current
    /\ \A m \in RestrictMasks(__kmp_affin_fullMask) :
         (m \intersect __kmp_affin_fullMask) # {} =>
           restrict_to_mask(restrict_to_mask(Current, m), m) = restrict_to_mask(Current, m)

(* a restriction that removed threads has been applied *)
C5_Witness ==
  /\ pc = "filtered"
  /\ filtered
  /\ \E m \in RestrictMasks(__kmp_affin_fullMask) :
       /\ m \intersect __kmp_affin_fullMask # {}
       /\ restrict_to_mask(Current, m).T.num_hw_threads < __kmp_topology.num_hw_threads

WouldClearAll ==
  /\ pc = "canonical"
  /\ __kmp_hw_subset.requested
  /\ LET plan == subset_plan(__kmp_topology, __kmp_hw_subset, __kmp_affin_fullMask)
     IN plan.ok /\ plan.num_filtered = __kmp_topology.num_hw_threads

LeftAlone ==
  /\ filtered' = FALSE
  /\ UNCHANGED <<__kmp_topology, __kmp_affin_fullMask, __kmp_avail_proc>>

WarningsOn(s) == s.flags.verbose \/ (s.flags.warnings /\ s.type # "none")

(* C6, as stated: when the request would remove every hardware thread,     *)
(* filter_hw_subset emits a warning, returns false and leaves topology,    *)
(* full mask and available-processor count as they were.                   *)
C6_AllFilteredWarns ==
  [][WouldClearAll => (LeftAlone /\ "AffHWSubsetAllFiltered" \in warnings')]_vars

(* C6, amended: as stated, the warning being emitted when the settings are *)
(* verbose, or have warnings on and a policy other than none.              *)
C6_AllFilteredRejected ==
  [][WouldClearAll =>
       /\ LeftAlone
       /\ ("AffHWSubsetAllFiltered" \in warnings') = WarningsOn(__kmp_affinity)]_vars

C6_Witness ==
  /\ pc = "filtered"
  /\ ~ filtered
  /\ "AffHWSubsetAllFiltered" \in warnings

C6_WitnessSilent ==
  /\ pc = "filtered"
  /\ ~ filtered
  /\ __kmp_hw_subset.requested
  /\ warnings = {}
  /\ subset_plan(__kmp_topology, __kmp_hw_subset, __kmp_affin_fullMask).num_filtered
       = __kmp_topology.num_hw_threads

SecondSocketFourCores ==
  Subset(FALSE, <<SubItem("SOCKET", 1, 1), SubItem("CORE", 4, 0)>>)

(* C7: on 2 sockets x 8 cores x 2 threads the request "1@1 sockets,        *)
(* 4 cores" keeps exactly the 8 threads of the first 4 cores of the second *)
(* socket; the full mask is those 8 OS ids, the topology is uniform,       *)
(* count[socket] = 1 and ratio[core] = 4.                                  *)
C7_SecondSocketFourCores ==
  [][(pc = "canonical" /\ machine = M_2x8x2 /\ __kmp_hw_subset = SecondSocketFourCores) =>
       /\ pc' = "filtered"
       /\ filtered'
       /\ __kmp_affin_fullMask' = 16 .. 23
       /\ {__kmp_topology'.hw_threads[i].os_id :
             i \in 0 .. __kmp_topology'.num_hw_threads - 1} = 16 .. 23
       /\ __kmp_topology'.num_hw_threads = 8
       /\ __kmp_topology'.uniform
       /\ __kmp_topology'.count[get_level(__kmp_topology', "SOCKET")] = 1
       /\ __kmp_topology'.ratio[get_level(__kmp_topology', "CORE")] = 4]_vars

C7_Witness ==
  /\ pc = "filtered"
  /\ machine = M_2x8x2
  /\ filtered
  /\ __kmp_affin_fullMask = 16 .. 23
  /\ __kmp_hw_subset.items[1].offset = <<1>>
  /\ __kmp_hw_subset.items[2].num = <<4>>

Initialized == pc = "initialized"

Policies == {"logical", "physical", "scatter", "compact", "balanced"}

(* the places of the threads in compact order: of the leaders only, or of  *)
(* every thread under dups                                                 *)
RECURSIVE LeaderPlaces(_, _, _)
LeaderPlaces(T, affinity, i) ==
  IF i >= T.num_hw_threads THEN <<>>
  ELSE LET t == T.hw_threads[i]
           rest == LeaderPlaces(T, affinity, i + 1)
       IN Then(rest, IF affinity.flags.dups \/ t.leader
                       THEN <<affinity.os_id_masks[t.os_id]>> \o rest
                       ELSE rest)

PlaceCap(n) ==
  IF bind_type # "intel" /\ __kmp_affinity_num_places > 0
    THEN Min2(__kmp_affinity_num_places, n) ELSE n

(* C8: under logical, physical, scatter, compact and balanced the place    *)
(* list holds, in compact-sort order, the os_id_masks entry of every       *)
(* granularity-group leader (of every hardware thread under dups), cut at  *)
(* the user's place cap when that is smaller, and the number of places     *)
(* written equals num_masks.                                               *)
C8_PlacePerLeader ==
  (Initialized /\ __kmp_affinity.type \in Policies) =>
    LET places == LeaderPlaces(sort_compact(__kmp_topology, __kmp_affinity.compact),
                               __kmp_affinity, 0)
        n == PlaceCap(Len(places))
    IN /\ __kmp_affinity.num_masks = n
       /\ places_written = __kmp_affinity.num_masks
       /\ __kmp_affinity.masks = SubSeq(places, 1, n)

C8_Witness ==
  /\ Initialized
  /\ __kmp_affinity.type = "scatter"
  /\ ~ __kmp_affinity.flags.dups
  /\ __kmp_affinity.gran = "CORE"
  /\ bind_type = "spread"
  /\ __kmp_affinity_num_places = 2
  /\ places_written = 2
  /\ __kmp_affinity.masks = <<{0, 1}, {16, 17}>>

(* the explicit list of the settings, parsed as the initialisation parses  *)
(* it: against the OS-id masks of the granularity                          *)
ParsedList ==
  LET g == set_granularity(__kmp_topology, __kmp_affinity)
      m == create_os_id_masks_attempts(Current, g.affinity)
  IN IF bind_type = "intel" THEN __kmp_affinity_process_proclist(m.affinity)
     ELSE __kmp_affinity_process_placelist(m.affinity, m.S.fullMask)

NoValidPlace ==
  /\ pc = "filtered"
  /\ __kmp_affinity.type = "explicit"
  /\ ParsedList.affinity.num_masks = 0

DegradedToNone ==
  /\ __kmp_affinity'.type = "none"
  /\ __kmp_affinity'.num_masks = 1
  /\ __kmp_affinity'.masks = <<__kmp_affin_fullMask'>>
  /\ __kmp_affinity'.flags.initialized

(* C9, as stated: an explicit list without a valid place turns the         *)
(* settings to none with the full mask as the single place, emits a        *)
(* warning and ends initialized.                                           *)
C9_NoValidPlaceWarns ==
  [][(NoValidPlace /\ pc' = "initialized") =>
       (DegradedToNone /\ "AffNoValidProcID" \in warnings')]_vars

(* C9, amended: as stated, the warning being emitted only when the         *)
(* settings are verbose or have warnings on.                               *)
C9_NoValidPlaceDegrades ==
  [][(NoValidPlace /\ pc' = "initialized") =>
       /\ DegradedToNone
       /\ ("AffNoValidProcID" \in warnings') <=>
            (__kmp_affinity.flags.verbose \/ __kmp_affinity.flags.warnings)]_vars

C9_Witness ==
  /\ Initialized
  /\ __kmp_affinity.proclist = L_none_valid
  /\ __kmp_affinity.type = "none"
  /\ __kmp_affinity.masks = <<__kmp_affin_fullMask>>
  /\ "AffNoValidProcID" \in warnings

C9_WitnessSilent ==
  /\ Initialized
  /\ __kmp_affinity.proclist = P_none_valid
  /\ __kmp_affinity.type = "none"
  /\ __kmp_affinity.masks = <<__kmp_affin_fullMask>>
  /\ "AffNoValidProcID" \notin warnings

(* what the claim reads off a list: a braces item is one place, a strided  *)
(* range one place per id from a in steps of s, not passing b              *)
Braces(ids) == <<ids>>

RECURSIVE Range(_, _, _)
Range(a, b, s) ==
  IF (s > 0 /\ a > b) \/ (s < 0 /\ a < b) THEN <<>>
  ELSE <<{a}>> \o Range(a + s, b, s)

Reading(list) ==
  CASE list = L_braces_range -> Braces({0, 2, 4}) \o Braces({1, 3, 5}) \o Range(6, 11, 2)
    [] list = L_ids -> Range(0, 0, 1) \o Range(1, 1, 1)
    [] list = L_down -> Range(3, 0, -1)
    [] list = L_spaces -> Braces({0, 1}) \o Range(2, 5, 3)
    [] OTHER -> <<>>

AllValid(reading) ==
  \A j \in 1 .. Len(reading) : reading[j] \subseteq __kmp_affin_fullMask

(* C10: in an explicit proclist whose ids are all valid, a braces item     *)
(* gives exactly one place, the union of its members' masks, and a strided *)
(* range a-b:s one place per id a, a+s, ... not passing b; under thread    *)
(* granularity {0,2,4},{1,3,5},6-11:2 gives the five places {0,2,4},       *)
(* {1,3,5}, {6}, {8}, {10} in this order.                                  *)
C10_BracesAndRanges ==
  (/\ Initialized
   /\ bind_type = "intel"
   /\ Reading(__kmp_affinity.proclist) # <<>>
   /\ AllValid(Reading(__kmp_affinity.proclist))) =>
    LET reading == Reading(__kmp_affinity.proclist)
    IN /\ __kmp_affinity.type = "explicit"
       /\ __kmp_affinity.num_masks = Len(reading)
       /\ __kmp_affinity.masks =
            [j \in 1 .. Len(reading) |->
               UNION {__kmp_affinity.os_id_masks[id] : id \in reading[j]}]
       /\ __kmp_affinity.gran_levels = 0 => __kmp_affinity.masks = reading

C10_Witness ==
  /\ Initialized
  /\ bind_type = "intel"
  /\ __kmp_affinity.proclist = L_braces_range
  /\ __kmp_affinity.gran_levels = 0
  /\ __kmp_affinity.masks = <<{0, 2, 4}, {1, 3, 5}, {6}, {8}, {10}>>

PlaceListRead ==
  /\ Initialized
  /\ bind_type = "spread"
  /\ __kmp_affinity.type = "explicit"

(* the place the expression at the head of str stands for *)
PlaceOf(str) ==
  __kmp_process_place(__kmp_affinity, __kmp_affin_fullMask, str, PlaceState(1)).tempMask

(* C11: a place list that starts with !P has as its first place exactly    *)
(* the processors of the full mask that are not in P.                      *)
C11_Complement ==
  (PlaceListRead /\ Head(__kmp_affinity.proclist) = "!") =>
    /\ __kmp_affinity.num_masks >= 1
    /\ __kmp_affinity.masks[1] =
         __kmp_affin_fullMask \ PlaceOf(Tail(__kmp_affinity.proclist))

(* count and stride of the lists made of one base place and its clause *)
RunClause(list) ==
  CASE list = P_run -> [count |-> 3, stride |-> 2]
    [] list = P_fading -> [count |-> 3, stride |-> 1]
    [] OTHER -> [count |-> 0, stride |-> 0]

Shift(place, stride) == {j + stride : j \in place} \intersect __kmp_affin_fullMask

(* n places from place on, each the previous one shifted *)
RECURSIVE ShiftedPlaces(_, _, _)
ShiftedPlaces(place, n, stride) ==
  IF n = 0 THEN <<>>
  ELSE <<place>> \o ShiftedPlaces(Shift(place, stride), n - 1, stride)

(* the same, ending before the first empty place *)
RECURSIVE PlacesUntilEmpty(_, _, _)
PlacesUntilEmpty(place, n, stride) ==
  IF n = 0 \/ place = {} THEN <<>>
  ELSE <<place>> \o PlacesUntilEmpty(Shift(place, stride), n - 1, stride)

RunRead ==
  /\ Initialized
  /\ bind_type = "spread"
  /\ RunClause(__kmp_affinity.proclist).count > 0

InitMaskSet ==
  /\ Initialized
  /\ call.op = "set_init_mask"

Caller == __kmp_threads[call.gtid]

(* the policies that give a thread the place of its number: the policies   *)
(* of KMP_AFFINITY but "none" and "balanced", and the places of OMP_PLACES *)
(* for a root                                                              *)
GtidIndexed ==
  \/ bind_type = "intel" /\ __kmp_affinity.type \notin {"none", "balanced"}
  \/ bind_type = "spread" /\ call.arg

(* the number of the thread among the regular threads *)
AdjustedGtid == IF call.gtid > 0 THEN call.gtid - __kmp_hidden_helper_threads_num
                ELSE call.gtid

(* C13: at initial binding under a gtid-indexed policy a thread that is    *)
(* not a hidden helper gets the place (adjusted_gtid + offset) mod         *)
(* num_masks, which lies in [0, num_masks-1], and its mask becomes a copy  *)
(* of that place.                                                          *)
C13_PlaceByGtid ==
  (InitMaskSet /\ ~ KMP_HIDDEN_HELPER_THREAD(call.gtid) /\ GtidIndexed) =>
    /\ Caller.th_current_place =
         (AdjustedGtid + __kmp_affinity.offset) % __kmp_affinity.num_masks
    /\ Caller.th_current_place \in 0 .. __kmp_affinity.num_masks - 1
    /\ Caller.th_affin_mask = __kmp_affinity.masks[Caller.th_current_place + 1]

(* thread 3 of a runtime with two hidden helpers, offset 1: place 2 *)
C13_Witness ==
  /\ InitMaskSet /\ GtidIndexed
  /\ call.gtid = 3
  /\ __kmp_hidden_helper_threads_num = 2
  /\ __kmp_affinity.offset = 1
  /\ __kmp_affinity.num_masks = 8
  /\ Caller.th_current_place = 2
  /\ Caller.th_affin_mask = __kmp_affinity.masks[3]

(* __kmp_affinity_set_init_mask took the place of the thread from the      *)
(* settings by the number of the thread (__kmp_select_mask_by_gtid)        *)
SelectedByGtid ==
  IF KMP_AFFINITY_NON_PROC_BIND \/ KMP_HIDDEN_HELPER_THREAD(call.gtid)
    THEN ~ (\/ AffinityOf(call.gtid).type \in {"none", "balanced"}
            \/ KMP_HIDDEN_HELPER_MAIN_THREAD(call.gtid))
    ELSE call.arg /\ bind_type # "false"

(* C29: when the initial place i of a thread is selected from settings,    *)
(* the regular ones or those of the hidden helpers, i is a valid index of  *)
(* the ids and attrs of these settings and the ids and attrs recorded for  *)
(* the thread are those of place i of these same settings.                 *)
C29_SummaryOfPlace ==
  (InitMaskSet /\ SelectedByGtid) =>
    LET i == Caller.th_current_place
        affinity == AffinityOf(call.gtid)
    IN /\ i >= 0 /\ i < affinity.num_masks
       /\ i < Len(affinity.ids) /\ i < Len(affinity.attrs)
       /\ Caller.th_topology_ids = affinity.ids[i + 1]
       /\ Caller.th_topology_attrs = affinity.attrs[i + 1]

(* C14, as stated: whenever OMP_PROC_BIND is off, after the initial mask   *)
(* of a thread has been set its place is 0 and its mask is the full mask,  *)
(* for every gtid and every type of the settings.                          *)
C14_ProcBindOff ==
  (InitMaskSet /\ bind_type = "false") =>
    /\ Caller.th_current_place = 0
    /\ Caller.th_affin_mask = __kmp_affin_fullMask

(* C14, amended: so it is on a machine with one processor group, for the   *)
(* main thread of the hidden helpers and for every thread whose settings   *)
(* are of type "none" or "balanced".                                       *)
C14_ProcBindOffNone ==
  (/\ InitMaskSet /\ bind_type = "false"
   /\ ~ GroupAffinity
   /\ \/ AffinityOf(call.gtid).type \in {"none", "balanced"}
      \/ KMP_HIDDEN_HELPER_MAIN_THREAD(call.gtid)) =>
    /\ Caller.th_current_place = 0
    /\ Caller.th_affin_mask = __kmp_affin_fullMask

C14_Witness ==
  /\ InitMaskSet /\ bind_type = "false"
  /\ ~ GroupAffinity
  /\ call.gtid = 3
  /\ __kmp_affinity.type = "none"
  /\ Caller.th_current_place = 0
  /\ Caller.th_affin_mask = __kmp_affin_fullMask
  /\ Cardinality(__kmp_affin_fullMask) = 3

(* the new place of the thread is a place of the list and lies in the      *)
(* partition of the thread, which wraps when its first place is after its  *)
(* last                                                                    *)
NewPlaceValid(th, new_place) ==
  /\ new_place >= 0
  /\ new_place < __kmp_affinity.num_masks
  /\ IF th.th_first_place <= th.th_last_place
       THEN new_place >= th.th_first_place /\ new_place <= th.th_last_place
       ELSE new_place >= th.th_first_place \/ new_place <= th.th_last_place

(* C15: bind_place goes on to read masks[new_place] and to bind, all its   *)
(* assertions having held, only if new_place lies in the partition of the  *)
(* thread and in [0, num_masks-1].                                         *)
C15_BindPlaceValidated ==
  (call.op = "bind_place" /\ call.retval = 0) => NewPlaceValid(Caller, call.arg)

(* the call did not bind: it ended the process or returned an error *)
Failed == pc = "aborted" \/ call.retval # 0

(* the mask lies in several processor groups of a Windows machine *)
SpansGroups(mask) ==
  /\ machine.windows
  /\ Cardinality({p \div BITS_PER_GROUP : p \in mask}) > 1

(* a call that did not fail has copied the mask into the slot of the       *)
(* thread and has reset its place range                                    *)
SetAffinityDone ==
  ~ Failed =>
    /\ Caller.th_affin_mask = call.mask
    /\ Caller.th_first_place = 0
    /\ Caller.th_last_place = __kmp_affinity.num_masks - 1

(* C16, as stated: every set_affinity(mask) with a mask that has no bit in *)
(* common with the full mask, or that spans several groups on Windows,     *)
(* fails; a call that does not fail copies the mask into the slot of the   *)
(* thread and resets its place range to [0, num_masks-1].                  *)
C16_SetAffinity ==
  call.op = "set_affinity" =>
    /\ (call.mask \intersect __kmp_affin_fullMask = {} \/ SpansGroups(call.mask))
         => Failed
    /\ SetAffinityDone

(* C16, amended: so it is under consistency checking; without it the call  *)
(* fails only when the system refuses the mask.                            *)
C16_SetAffinityChecked ==
  call.op = "set_affinity" =>
    /\ (/\ __kmp_env_consistency_check
        /\ \/ call.mask \intersect __kmp_affin_fullMask = {}
           \/ SpansGroups(call.mask))
         => Failed
    /\ (~ __kmp_env_consistency_check /\ Failed)
         => __kmp_set_system_affinity(call.mask) # 0
    /\ SetAffinityDone

(* with the checks: the mask {1} on the full mask {0,2,3} ends the process; *)
C16_WitnessFatal ==
  /\ call.op = "set_affinity"
  /\ __kmp_env_consistency_check
  /\ call.mask = {1}
  /\ __kmp_affin_fullMask = {0, 2, 3}
  /\ pc = "aborted"

(* a call that binds *)
C16_Witness ==
  /\ call.op = "set_affinity"
  /\ call.mask = {0, 1}
  /\ ~ Failed
  /\ Caller.th_affin_mask = {0, 1}
  /\ Caller.th_last_place = 7

MaskProcCalls ==
  {"set_affinity_mask_proc", "unset_affinity_mask_proc", "get_affinity_mask_proc"}

OutOfRange(proc) == proc < 0 \/ proc >= __kmp_aux_get_affinity_max_proc

(* C17, as stated: each of the three returns -1 when proc is out of range  *)
(* and -2 when it is in range but not in the full mask, and leaves the     *)
(* mask as it was in both cases.                                           *)
C17_MaskProcErrors ==
  call.op \in MaskProcCalls =>
    /\ OutOfRange(call.arg) => call.retval = -1 /\ call.out = call.mask
    /\ (~ OutOfRange(call.arg) /\ call.arg \notin __kmp_affin_fullMask)
         => call.retval = -2 /\ call.out = call.mask

(* C17, amended: set and unset return -2 for a proc in range that is not   *)
(* in the full mask, get returns 0.                                        *)
C17_MaskProcErrorsGetZero ==
  call.op \in MaskProcCalls =>
    /\ OutOfRange(call.arg) => call.retval = -1 /\ call.out = call.mask
    /\ (~ OutOfRange(call.arg) /\ call.arg \notin __kmp_affin_fullMask)
         => /\ call.retval = IF call.op = "get_affinity_mask_proc" THEN 0 ELSE -2
            /\ call.out = call.mask

(* proc 1 is in the mask of the caller and not in the full mask {0,2,3} *)
C17_Witness ==
  /\ call.op = "get_affinity_mask_proc"
  /\ call.arg = 1
  /\ call.mask = {0, 1}
  /\ __kmp_affin_fullMask = {0, 2, 3}
  /\ call.retval = 0
  /\ call.out = {0, 1}

(* the calls that bind a thread *)
BindingCalls == {"bind_init_mask", "bind_place", "set_affinity", "balanced"}

(* the slot of the calling thread when event k of the call happens *)
SlotAt(k) ==
  LET writes == {h \in 1 .. k - 1 : call.events[h].what = "slot"}
  IN IF writes = {} THEN call.before
     ELSE call.events[CHOOSE h \in writes : \A g \in writes : g <= h].mask

(* every system call of the call finds its mask in the slot *)
SlotWrittenFirst ==
  \A k \in 1 .. Len(call.events) :
    call.events[k].what = "os" => SlotAt(k) = call.events[k].mask

(* C18, as stated: in the initial bind, bind_place, set_affinity and the   *)
(* balanced assignment the slot of the calling thread is written with the  *)
(* new mask before the system is called to bind to that mask.              *)
C18_SlotBeforeBind ==
  call.op \in BindingCalls => SlotWrittenFirst

(* C18, amended: so it is in the initial bind, bind_place and the balanced *)
(* assignment; set_affinity calls the system first and writes the slot     *)
(* afterwards, when the system took the mask.                              *)
C18_SlotBeforeBindButSetAffinity ==
  /\ call.op \in BindingCalls \ {"set_affinity"} => SlotWrittenFirst
  /\ (call.op = "set_affinity" /\ call.events # <<>>) =>
       call.events = <<OsBind(call.mask)>>
                       \o (IF call.retval = 0 THEN <<SlotWrite(call.mask)>> ELSE <<>>)

(* set_affinity({1}) of a thread whose slot was {0} *)
C18_Witness ==
  /\ call.op = "set_affinity"
  /\ call.before = {0}
  /\ call.events = <<OsBind({1}), SlotWrite({1})>>
  /\ Caller.th_affin_mask = {1}

(* a balanced assignment that moves the thread *)
C18_WitnessBalanced ==
  /\ call.op = "balanced"
  /\ call.before # call.out
  /\ call.events = <<SlotWrite(call.out), OsBind(call.out)>>

(* the topology without what the making of places leaves in it: the       *)
(* leader flags and the key of the last sort                               *)
WithoutLeaders(T) ==
  [T EXCEPT !.compact = 0,
            !.hw_threads =
     [i \in DOMAIN T.hw_threads |-> [T.hw_threads[i] EXCEPT !.leader = FALSE]]]

TopologyKept == __kmp_topology' = __kmp_topology

RegularMasksKept ==
  /\ __kmp_affinity'.masks = __kmp_affinity.masks
  /\ __kmp_affinity'.os_id_masks = __kmp_affinity.os_id_masks
  /\ __kmp_affinity'.num_masks = __kmp_affinity.num_masks

PriorityOrder == <<"hwloc", "x2apicid", "apicid", "cpuinfo", "group", "flat">>

(* the back-ends of the priority list that the machine can be asked *)
Eligible ==
  SelectSeq(PriorityOrder,
            LAMBDA b : b \in built /\ (b = "group" => machine.num_proc_groups > 1))

Succeeds(b) == try_map(b, __kmp_affin_fullMask).ok

C20_WitnessPinned ==
  /\ machine.name = "apicid_dup_pinned"
  /\ pc = "aborted"
  /\ tried = <<"apicid">>
  /\ __kmp_topology = NoTopology

(* the second back-end of the list succeeded *)
C20_WitnessSecond ==
  /\ machine.name = "apicid"
  /\ pc = "discovered"
  /\ tried = <<"x2apicid", "apicid">>
  /\ __kmp_topology.num_hw_threads = 8
  /\ globals = [nThreadsPerCore |-> 2, nCoresPerPkg |-> 2, nPackages |-> 2, ncores |-> 4]

(* the OS procs of the hardware threads that share the ids of levels       *)
(* 0 .. lvl with the hardware thread at index i                            *)
OsIdsOfUnit(i, lvl) ==
  {__kmp_topology.hw_threads[u].os_id :
     u \in {v \in 0 .. __kmp_topology.num_hw_threads - 1 :
              \A l \in 0 .. lvl :
                __kmp_topology.hw_threads[v].ids[l] = __kmp_topology.hw_threads[i].ids[l]}}

(* the last call placed thread call.mask of a team of call.arg threads on  *)
(* a uniform topology of units of per processors each, lvl being the layer *)
(* of the units, by the rule of chunks and big units                       *)
UniformBalancedBy(units, per, lvl) ==
  LET nthreads == call.arg
      tid == call.mask
      chunk == nthreads \div units
      big == nthreads % units
      unit(t) == IF t < big * (chunk + 1) THEN t \div (chunk + 1)
                 ELSE (t - big) \div chunk
      sub(t) == IF t < big * (chunk + 1) THEN (t % (chunk + 1)) % per
                ELSE ((t - big) % chunk) % per
  IN /\ \A t \in 0 .. nthreads - 1 : t >= big * (chunk + 1) => chunk > 0
     /\ \A t \in 0 .. nthreads - 1 : unit(t) \in 0 .. units - 1
     /\ \A c \in 0 .. units - 1 :
           Cardinality({t \in 0 .. nthreads - 1 : unit(t) = c})
             = IF c < big THEN chunk + 1 ELSE chunk
     /\ unit(tid) * per + sub(tid) < __kmp_topology.num_hw_threads
     /\ call.out = IF balanced_fine_gran
                     THEN {os_id_at(unit(tid) * per + sub(tid))}
                   ELSE OsIdsOfUnit(unit(tid) * per, lvl)

UniformBalancedCall ==
  /\ call.op = "balanced"
  /\ __kmp_topology.uniform

(* the packages stand in for the cores *)
PackagesAsCores ==
  globals.nPackages > 1 /\ __kmp_avail_proc \div globals.ncores <= 1

(* C23 as stated: on a uniform topology the balanced assigner splits the   *)
(* nthreads threads over the ncores cores: chunk = nthreads / ncores, big  *)
(* = nthreads % ncores, tid < big*(chunk+1) goes to core tid/(chunk+1),    *)
(* every other tid to core (tid-big)/chunk, without a division by zero;    *)
(* the core is in [0, ncores), the first big cores get chunk+1 threads,    *)
(* the others chunk; the thread is bound to the OS id at the canonical     *)
(* index core*nth_per_core + sub, or to all OS ids of the core.            *)
C23_UniformBalancedCores ==
  UniformBalancedCall =>
    UniformBalancedBy(globals.ncores, __kmp_avail_proc \div globals.ncores,
                      get_level(__kmp_topology, "CORE"))

(* C23 amended: the same, the units being the packages, of avail_proc /    *)
(* nPackages processors each, when there are several packages and no core  *)
(* has more than one thread, and the cores otherwise.                      *)
C23_UniformBalanced ==
  UniformBalancedCall =>
    IF PackagesAsCores
      THEN UniformBalancedBy(globals.nPackages,
                             __kmp_avail_proc \div globals.nPackages,
                             package_level(__kmp_topology))
    ELSE UniformBalancedBy(globals.ncores, __kmp_avail_proc \div globals.ncores,
                           get_level(__kmp_topology, "CORE"))

(* thread 1 of 2 on two packages of two cores: the second package *)
C23_Witness ==
  /\ UniformBalancedCall
  /\ machine.name = "2x2x1"
  /\ PackagesAsCores
  /\ call.arg = 2
  /\ call.mask = 1
  /\ call.out = {2}
  /\ pc = "initialized"

(* thread 4 of 5 on four cores of two threads: the whole last core; thread *)
(* 1 of 2 on the same cores: a chunk of 0                                  *)
C23_WitnessCoarse ==
  /\ UniformBalancedCall
  /\ machine.name = "cpuinfo"
  /\ ~ PackagesAsCores
  /\ ~ balanced_fine_gran
  /\ call.arg = 5
  /\ call.mask = 4
  /\ call.out = {6, 7}

C23_WitnessChunk0 ==
  /\ UniformBalancedCall
  /\ machine.name = "cpuinfo"
  /\ call.arg = 2
  /\ call.mask = 1
  /\ call.out = {2, 3}

HwIndices == 0 .. __kmp_topology.num_hw_threads - 1

(* the number of distinct prefixes of length l + 1 of the ids *)
DistinctPrefixes(T, l) ==
  Cardinality({[k \in 0 .. l |-> T.hw_threads[i].ids[k]] :
                 i \in 0 .. T.num_hw_threads - 1})

(* the topology after a new enumeration of its threads in canonical order *)
FreshEnumeration(T) ==
  _discover_uniformity(_gather_enumeration_information(sort_ids(T)))

(* C28: when the initialization of a config ends, whatever the policy and  *)
(* the value of compact, and also when the places cover fewer processors   *)
(* than the full mask and the topology was restricted to them in the order *)
(* of the compact sort, the threads are in canonical order and count[],    *)
(* ratio[], the uniform flag and the globals are those of a new            *)
(* enumeration of the threads that are left: count[l] is the number of     *)
(* distinct id prefixes of length l + 1 (compared where every id is known). *)
C28_FreshAfterInit ==
  (pc = "initialized" /\ __kmp_affinity.type # "none") =>
    LET F == FreshEnumeration(__kmp_topology)
    IN /\ __kmp_topology.hw_threads = sort_ids(__kmp_topology).hw_threads
       /\ (\A i \in HwIndices : \A l \in 0 .. __kmp_topology.depth - 1 :
              __kmp_topology.hw_threads[i].ids[l] # UNKNOWN_ID)
            => \A l \in 0 .. __kmp_topology.depth - 1 :
                 __kmp_topology.count[l] = DistinctPrefixes(__kmp_topology, l)
       /\ __kmp_topology.count = F.count
       /\ __kmp_topology.ratio = F.ratio
       /\ __kmp_topology.uniform = F.uniform
       /\ set_globals_asserts(F) => globals = _set_globals(F)

(* C30: after initialization every place of masks[0 .. num_masks-1],       *)
(* whichever builder made it (the walk over the topology, a proclist, a    *)
(* place list of OMP_PLACES with its "!" and ":count:stride" forms, the    *)
(* single place of "none"), is a non-empty set of OS ids inside the full   *)
(* mask of the process.                                                    *)
C30_PlacesInFullMask ==
  (pc = "initialized") =>
    /\ Len(__kmp_affinity.masks) >= __kmp_affinity.num_masks
    /\ \A i \in 1 .. __kmp_affinity.num_masks :
         /\ __kmp_affinity.masks[i] # {}
         /\ __kmp_affinity.masks[i] \subseteq __kmp_affin_fullMask

(* hardware thread t has the attribute attr *)
HasAttr(t, attr) ==
  /\ is_core_type_valid(attr) =>
       __kmp_topology.hw_threads[t].attrs.core_type = attr.core_type
  /\ is_core_eff_valid(attr) =>
       __kmp_topology.hw_threads[t].attrs.core_eff = attr.core_eff

(* hardware threads a and b share the ids of the levels 0 .. lvl *)
SameUnit(a, b, lvl) ==
  \A l \in 0 .. lvl :
    __kmp_topology.hw_threads[a].ids[l] = __kmp_topology.hw_threads[b].ids[l]

(* the index of the core of t among the cores of its package that have     *)
(* the attribute, in the order of the threads                              *)
AttrIndex(t, attr) ==
  LET core_level == get_level(__kmp_topology, "CORE")
      socket_level == get_level(__kmp_topology, "SOCKET")
  IN Cardinality(
       {[l \in 0 .. core_level |-> __kmp_topology.hw_threads[u].ids[l]] :
          u \in {v \in 0 .. t - 1 :
                   /\ SameUnit(v, t, socket_level)
                   /\ ~ SameUnit(v, t, core_level)
                   /\ HasAttr(v, attr)}})

(* the request is one relative item n@o on the cores of one attribute and  *)
(* filter_hw_subset has applied it                                         *)
AttrSubsetApplied ==
  /\ pc = "canonical"
  /\ pc' = "filtered"
  /\ filtered'
  /\ __kmp_hw_subset.requested
  /\ ~ __kmp_hw_subset.absolute
  /\ Len(__kmp_hw_subset.items) = 1
  /\ __kmp_hw_subset.items[1].type = "CORE"
  /\ __kmp_hw_subset.items[1].attr[1].valid

(* C27: a relative item n@o on the cores of an attribute keeps, in every   *)
(* package, the cores of that attribute whose index among the cores of the *)
(* attribute in the package is in [o, o + n); the index starts at 0 in     *)
(* every package, for every attribute.                                     *)
C27_AttrIndexPerUnit ==
  [][AttrSubsetApplied =>
       LET item == __kmp_hw_subset.items[1]
       IN __kmp_affin_fullMask' =
            {__kmp_topology.hw_threads[t].os_id :
               t \in {v \in HwIndices :
                        /\ HasAttr(v, item.attr[1])
                        /\ AttrIndex(v, item.attr[1]) >= item.offset[1]
                        /\ item.num[1] # USE_ALL =>
                             AttrIndex(v, item.attr[1]) < item.offset[1] + item.num[1]}}]_vars

(* hardware threads a and b are close: the same core type or the same     *)
(* core efficiency under those granularities, the same ids at the levels   *)
(* 0 .. depth - 1 - gran_levels otherwise                                  *)
Close(a, b) ==
  IF __kmp_affinity.flags.core_types_gran
    THEN __kmp_topology.hw_threads[a].attrs.core_type
           = __kmp_topology.hw_threads[b].attrs.core_type
  ELSE IF __kmp_affinity.flags.core_effs_gran
    THEN __kmp_topology.hw_threads[a].attrs.core_eff
           = __kmp_topology.hw_threads[b].attrs.core_eff
  ELSE \A l \in 0 .. __kmp_topology.depth - 1 - __kmp_affinity.gran_levels :
         __kmp_topology.hw_threads[a].ids[l] = __kmp_topology.hw_threads[b].ids[l]

(* the table of masks of __kmp_affinity was made *)
TableMade ==
  /\ pc = "initialized"
  /\ __kmp_affinity.num_os_id_masks > 0

(* the first thread of the run of neighbours thread k is in: a run ends    *)
(* before the first thread that is not close to the first of the run       *)
RECURSIVE RunStart(_)
RunStart(k) ==
  IF k = 0 THEN 0
  ELSE With(RunStart(k - 1), LAMBDA first : IF Close(first, k) THEN first ELSE k)

C26_WitnessCore ==
  /\ TableMade
  /\ machine.name = "cpuinfo"
  /\ __kmp_affinity.gran = "CORE"
  /\ __kmp_topology.num_hw_threads = 8
  /\ __kmp_affinity.os_id_masks[3] = {2, 3}
  /\ __kmp_topology.hw_threads[2].leader
  /\ ~ __kmp_topology.hw_threads[3].leader

(* the topology _remove_radix1_layers is called on *)
RadixInput ==
  IF machine.windows THEN _insert_windows_proc_groups(__kmp_topology)
  ELSE __kmp_topology

(* the fixed table of preference, the most preferred kind first *)
PreferenceOrder ==
  <<"SOCKET", "PROC_GROUP", "CORE", "THREAD", "NUMA", "DIE", "TILE", "MODULE",
    "L3", "L2", "L1", "LLC">>

PreferenceRank(type) ==
  CHOOSE k \in 1 .. Len(PreferenceOrder) : PreferenceOrder[k] = type

(* layer j has one id under every unit of layer i *)
Radix1Under(T, i, j) ==
  \A a, b \in 0 .. T.num_hw_threads - 1 :
    (\A l \in 0 .. i : T.hw_threads[a].ids[l] = T.hw_threads[b].ids[l])
      => T.hw_threads[a].ids[j] = T.hw_threads[b].ids[j]

(* the collapse removed the less preferred kind of the pair from types[]   *)
(* and made it equivalent to the kind it kept                              *)
LowerPreferenceRemoved(c) ==
  \E r \in {c.top_index1, c.top_index2} :
    LET k == IF r = c.top_index1 THEN c.top_index2 ELSE c.top_index1
        removed == c.before.types[r]
        kept == c.before.types[k]
    IN /\ PreferenceRank(removed) >= PreferenceRank(kept)
       /\ removed # kept => PreferenceRank(removed) > PreferenceRank(kept)
       /\ c.after.depth = c.before.depth - 1
       /\ c.after.types = RemoveAt(c.before.types, c.before.depth, r)
       /\ c.after.equivalent[removed] = kept

(* canonicalize ran: its collapses are those of the topology it was given *)
RadixCollapsesOf(ok(_)) ==
  (pc = "discovered" /\ pc' = "canonical") =>
    LET cs == radix1_collapses(RadixInput, 0, 1)
    IN /\ \A k \in 1 .. Len(cs) : ok(cs[k])
       /\ __kmp_topology'.types =
            IF cs = <<>> THEN RadixInput.types ELSE cs[Len(cs)].after.types

(* C25 as stated: a pair of adjacent layers (Li, Lj) is collapsed only if  *)
(* Lj is radix-1 under Li and neither Li nor Lj is SOCKET, CORE or THREAD; *)
(* the layer of lower preference is removed from types[] and               *)
(* equivalent[removed] is the kept layer.                                  *)
C25_CollapseNeitherMain ==
  [][RadixCollapsesOf(LAMBDA c :
       /\ Radix1Under(c.before, c.top_index1, c.top_index2)
       /\ c.before.types[c.top_index1] \notin {"SOCKET", "CORE", "THREAD"}
       /\ c.before.types[c.top_index2] \notin {"SOCKET", "CORE", "THREAD"}
       /\ LowerPreferenceRemoved(c))]_vars

(* C25 amended: a pair of adjacent layers (Li, Lj) is collapsed only if Lj *)
(* is radix-1 under Li and Li and Lj are not both among SOCKET, CORE and   *)
(* THREAD; the layer of lower preference is removed from types[] and       *)
(* equivalent[removed] is the kept layer.                                  *)
C25_CollapseNotBothMain ==
  [][RadixCollapsesOf(LAMBDA c :
       /\ Radix1Under(c.before, c.top_index1, c.top_index2)
       /\ ~ (/\ c.before.types[c.top_index1] \in {"SOCKET", "CORE", "THREAD"}
             /\ c.before.types[c.top_index2] \in {"SOCKET", "CORE", "THREAD"})
       /\ LowerPreferenceRemoved(c))]_vars

(* the die layer of a machine with one die in every package went: the     *)
(* pair it made with the socket layer was collapsed                        *)
C25_Witness ==
  /\ pc = "canonical"
  /\ machine.name = "x2apic_die"
  /\ get_level(__kmp_topology, "SOCKET") = 0
  /\ \A l \in 0 .. __kmp_topology.depth - 1 : __kmp_topology.types[l] # "DIE"
  /\ __kmp_topology.equivalent["DIE"] = "SOCKET"

(* the cores of the topology, each as the set of its OS procs *)
CoreSets ==
  {OsIdsOfUnit(i, get_level(__kmp_topology, "CORE")) :
     i \in 0 .. __kmp_topology.num_hw_threads - 1}

(* the number of cores of __kmp_balanced_affinity on a non-uniform topology *)
balanced_ncores ==
  __kmp_affinity_compute_ncores(__kmp_topology,
    __kmp_affinity_find_core_level(__kmp_topology, __kmp_avail_proc,
                                   __kmp_topology.depth - 1))

(* the last call placed a thread of a team larger than the number of cores *)
(* on a topology that is not uniform                                       *)
ManyBalancedCall ==
  /\ call.op = "balanced"
  /\ ~ __kmp_topology.uniform
  /\ call.arg > balanced_ncores

(* C24: on a topology that is not uniform and with nthreads > ncores the   *)
(* fill ends with every thread on a processor that exists: every tid of    *)
(* the team gets a mask that is not empty and lies inside one core that    *)
(* has processors; on cores of 4, 2 and 2 threads and nthreads = 6 the     *)
(* cores get 2, 2 and 2 threads.                                           *)
C24_IterativeFill ==
  /\ ManyBalancedCall =>
       /\ call.out # {}
       /\ \E core \in CoreSets : call.out \subseteq core
       /\ \A t \in 0 .. call.arg - 1 :
            /\ __kmp_balanced_affinity(t, call.arg) # {}
            /\ \E core \in CoreSets :
                 __kmp_balanced_affinity(t, call.arg) \subseteq core
  /\ (ManyBalancedCall /\ machine.name = "cpuinfo_smt422"
        /\ __kmp_affin_fullMask = 0 .. 7 /\ call.arg = 6) =>
       \A core \in CoreSets :
         Cardinality({t \in 0 .. 5 :
                        __kmp_balanced_affinity(t, 6) \subseteq core}) = 2

(* thread 5 of 6 on the cores of 4, 2 and 2 threads: the last core *)
C24_Witness ==
  /\ ManyBalancedCall
  /\ machine.name = "cpuinfo_smt422"
  /\ __kmp_affin_fullMask = 0 .. 7
  /\ CoreSets = {0 .. 3, {4, 5}, {6, 7}}
  /\ call.arg = 6
  /\ call.mask = 5
  /\ call.out = IF balanced_fine_gran THEN {7} ELSE {6, 7}
  /\ pc = "initialized"

(* more threads than processors on cores with holes: thread 5 of 6 on the  *)
(* cores {0, 1}, {2} and {4}                                               *)
C24_WitnessHoles ==
  /\ ManyBalancedCall
  /\ machine.name = "cpuinfo"
  /\ __kmp_affin_fullMask = {0, 1, 2, 4}
  /\ \E i \in DOMAIN procarr : procarr[i] = -1
  /\ call.arg = 6
  /\ call.mask = 5
  /\ call.out = {4}

(* the flat map is the topology in use *)
FlatUsed ==
  /\ pc \in {"discovered", "canonical"}
  /\ tried # <<>>
  /\ tried[Len(tried)] = "flat"

(* the number of packages of the topology: the distinct ids of level 0 *)
PackagesOf(T) ==
  Cardinality({T.hw_threads[i].ids[0] : i \in 0 .. T.num_hw_threads - 1})

(* the number of cores of the topology: the distinct ids of levels 0, 1 *)
CoresOf(T) ==
  Cardinality({<<T.hw_threads[i].ids[0], T.hw_threads[i].ids[1]>> :
                 i \in 0 .. T.num_hw_threads - 1})

(* C22 as stated: the flat fallback always succeeds and builds exactly one *)
(* package that holds one core, of one thread, for every OS proc of the     *)
(* full mask: the package count is 1, the core count the number of procs.  *)
C22_FlatOnePackage ==
  /\ \A mask \in machine.masks : __kmp_affinity_create_flat_map(mask).ok
  /\ FlatUsed =>
       /\ PackagesOf(__kmp_topology) = 1
       /\ globals.nPackages = 1
       /\ CoresOf(__kmp_topology) = __kmp_avail_proc
       /\ globals.ncores = __kmp_avail_proc

(* C22 amended: the flat fallback always succeeds and builds one package   *)
(* for every OS proc of the full mask, each with one core of one thread:   *)
(* the package count and the core count are the number of procs.           *)
C22_FlatPackagePerProc ==
  /\ \A mask \in machine.masks : __kmp_affinity_create_flat_map(mask).ok
  /\ FlatUsed =>
       /\ __kmp_topology.depth = 3
       /\ __kmp_topology.types = Arr(<<"SOCKET", "CORE", "THREAD">>)
       /\ __kmp_topology.num_hw_threads = __kmp_avail_proc
       /\ {__kmp_topology.hw_threads[i].os_id :
             i \in 0 .. __kmp_topology.num_hw_threads - 1} = __kmp_affin_fullMask
       /\ PackagesOf(__kmp_topology) = __kmp_avail_proc
       /\ CoresOf(__kmp_topology) = __kmp_avail_proc
       /\ globals.nPackages = __kmp_avail_proc
       /\ globals.ncores = __kmp_avail_proc
       /\ globals.nCoresPerPkg = 1
       /\ globals.nThreadsPerCore = 1
       /\ pc = "canonical" =>
            \A l \in 0 .. 2 : get_count(__kmp_topology, l) = __kmp_avail_proc

(* the flat map of four procs went through canonicalize: four packages *)
C22_Witness ==
  /\ FlatUsed
  /\ pc = "canonical"
  /\ __kmp_avail_proc = 4
  /\ PackagesOf(__kmp_topology) = 4
  /\ get_count(__kmp_topology, 0) = 4
  /\ globals.nPackages = 4

(* C21: every discovery back-end that binds the calling thread to the     *)
(* processors one by one leaves the thread, on every return, with the mask *)
(* it had on entry.                                                        *)
C21_MaskRestored ==
  [][pc = "start" =>
       /\ os_affinity'[0] = os_affinity[0]
       /\ \A m \in {"apicid", "x2apicid"} : \A entry \in {os_affinity[0], {0}} :
             map_thread_mask(m, __kmp_affin_fullMask, entry) = entry]_vars

(* the walk of the legacy APIC back-end ended at processor 1, the flat map *)
(* was made and the thread has the mask of the process                     *)
C21_Witness ==
  /\ machine.name = "apicid_invalid"
  /\ early_exits("apicid", __kmp_affin_origMask) = {1}
  /\ tried = <<"x2apicid", "apicid", "cpuinfo", "flat">>
  /\ pc = "discovered"
  /\ os_affinity[0] = __kmp_affin_origMask

(* the walk of the x2APIC back-end ended at processor 1 *)
C21_WitnessX2 ==
  /\ machine.name = "x2apic_nolevel"
  /\ early_exits("x2apicid", __kmp_affin_origMask) = {1}
  /\ tried = <<"x2apicid", "apicid", "cpuinfo", "flat">>
  /\ os_affinity[0] = __kmp_affin_origMask

Next == Discover \/ Canonicalize \/ FilterHwSubset \/ AffinityInitialize

Spec == Init /\ [][Next]_vars

SpecPlaces == InitPlaces /\ [][Next]_vars

(* the requests on the cores of an attribute on hybrid machines *)
SpecAttrs == InitAttrs /\ [][Next]_vars

(* the tables of masks under every granularity *)
SpecMasks == InitMasks /\ [][Next]_vars

(* the runtime with its threads *)
NextBind ==
  \/ Discover \/ Canonicalize \/ FilterHwSubset \/ AffinityInitialize
  \/ HiddenHelperInitialize \/ SetInitMask \/ BindInitMask

SpecBind == InitBind /\ [][NextBind]_vars

(* the runtime with its threads and their calls *)
NextCalls ==
  \/ Discover \/ Canonicalize \/ FilterHwSubset \/ AffinityInitialize
  \/ HiddenHelperInitialize \/ SetInitMask \/ BindInitMask
  \/ SetPartition \/ BindPlace \/ SetAffinity
  \/ SetAffinityMaskProc \/ UnsetAffinityMaskProc \/ GetAffinityMaskProc
  \/ BalancedAffinity

SpecCalls == InitCalls /\ [][NextCalls]_vars

(* the runtime under the policy "balanced" and the forks of its teams *)
NextBalanced ==
  \/ Discover \/ Canonicalize \/ FilterHwSubset \/ AffinityInitialize
  \/ SetInitMask \/ BindInitMask \/ BalancedAffinity

SpecBalanced == InitBalanced /\ [][NextBalanced]_vars
====
